---------------------------- MODULE Spec2Model ----------------------------
(***************************************************************************)
(* EmotionVisualizer: the visualization-generation pipeline.               *)
(*                                                                         *)
(*   backend/app/api/v1/visualizations.py   the /feeling and /story        *)
(*                                          handlers and the error mapper  *)
(*   backend/app/services/story_analyzer.py the Narrative Analyzer         *)
(*   backend/app/services/gemini_client.py  the Generation Client          *)
(*                                                                         *)
(* One request is followed from its arrival to its response.  The request  *)
(* coroutine, the worker threads started by asyncio.to_thread and the      *)
(* external image service are separate processes; an action is one run of  *)
(* the coroutine between two await points, one step of a worker thread, or *)
(* one answer of the external service.                                     *)
(***************************************************************************)
EXTENDS Integers, Sequences, FiniteSets, TLC

VARIABLES
    pc,              \* position of the request coroutine
    received,        \* history: the request body as it arrived
    request,         \* the validated request model (NoRequest before arrival)
    text_model,      \* history: what the external text model did with the call
    analysis,        \* analyze_story's return value (NoAnalysis before)
    sdk,             \* the installed SDK: does genai offer ImageGenerationModel
    imagen_model,    \* GeminiClient.imagen_model (lazily initialised)
    attempt,         \* loop variable of generate_visualization_image
    last_exception,  \* local last_exception (NoException = None)
    threads,         \* worker thread of attempt k+1, for every attempt started
    outcome,         \* how generate_visualization_image ended
    response,        \* the HTTP response of the request
    calls,           \* history: calls issued to the external image service
    sleeps,          \* history: the backoff sleeps, in order
    log,             \* history: what each finished attempt looked like to the loop
    hash_seed,       \* the running process's string-hash seed (PYTHONHASHSEED)
    builder_args,    \* the arguments the Prompt Builder is called with
    returned,        \* history: every value a Prompt Builder method returned for
                     \* them, and what GET /emotions returned
    ncalls,          \* history: number of Prompt Builder calls made so far
    caught           \* the exception a handler's `except Exception as e` caught

vars == <<pc, received, request, text_model, analysis, sdk, imagen_model, attempt, last_exception,
          threads, outcome, response, calls, sleeps, log, hash_seed, builder_args, returned, ncalls,
          caught>>

(***************************************************************************)
(* Text.  Error texts and messages are strings; Python's str.lower and the *)
(* substring test `a in b` are computed character by character.            *)
(***************************************************************************)
Upper == "ABCDEFGHIJKLMNOPQRSTUVWXYZ"
LowerLetters == "abcdefghijklmnopqrstuvwxyz"

LowerChar(c) ==
    IF \E i \in 1..Len(Upper) : SubSeq(Upper, i, i) = c
    THEN LET i == CHOOSE j \in 1..Len(Upper) : SubSeq(Upper, j, j) = c
         IN  SubSeq(LowerLetters, i, i)
    ELSE c

\* str.lower() of the characters lo..hi, computed by halves (a prompt has
\* several hundred characters)
RECURSIVE LowerRange(_, _, _)
LowerRange(s, lo, hi) ==
    IF lo > hi THEN ""
    ELSE IF lo = hi THEN LowerChar(SubSeq(s, lo, lo))
    ELSE LowerRange(s, lo, (lo + hi) \div 2) \o LowerRange(s, (lo + hi) \div 2 + 1, hi)

\* str.lower(), from the i-th character on
LowerFrom(s, i) == LowerRange(s, i, Len(s))

Lower(s) == LowerFrom(s, 1)

\* Python: sub in s
Contains(s, sub) ==
    \E i \in 1..(Len(s) - Len(sub) + 1) : SubSeq(s, i, i + Len(sub) - 1) = sub


(***************************************************************************)
(* Program constants.                                                      *)
(***************************************************************************)
GEMINI_MAX_RETRIES == 2          \* settings.GEMINI_MAX_RETRIES
max_retries == GEMINI_MAX_RETRIES \* GeminiClient.max_retries
MinStoryLen == 50
MaxStoryLen == 5000
MaxFactors == 5                  \* validated_factors[:5]
MaxFallbackEmotions == 4         \* selected_emotions[:4]
DominantColorsWanted == 3        \* if len(colors) < 3
DominantColorsCap == 4           \* colors[:4]

VALID_EMOTIONS ==
    {"super_happy", "pumped", "cozy", "chill", "content", "fuming",
     "freaked_out", "mad_as_hell", "blah", "down", "bored_stiff"}

VALID_CATEGORIES == {"good", "bad", "not_sure"}

(***************************************************************************)
(* Bounds of the model.                                                    *)
(***************************************************************************)
MaxPad == 1        \* whitespace characters before and after a narrative
MaxEntries == 6    \* entries of the "factors" list in the text model's answer
MaxEmotions == 2   \* length of the emotion sequences enumerated over PromptEmotions
MaxBuilderCalls == 2  \* Prompt Builder calls followed in one behaviour
MaxMarkers == 2  \* words joined into the text of a caught exception
MaxSeed == 2       \* string-hash seeds 0..MaxSeed a process may start with

(***************************************************************************)
(* Narratives.  A text is a sequence of runs [c, n]: n >= 1 characters of  *)
(* class c, "ws" whitespace, "lat" a letter outside U+4E00..U+9FFF, "han"  *)
(* a character inside that range.  Adjacent runs differ in class.          *)
(***************************************************************************)
Run(c, n) == IF n = 0 THEN <<>> ELSE <<[c |-> c, n |-> n]>>

RECURSIVE TextLen(_)
TextLen(t) == IF t = <<>> THEN 0 ELSE Head(t).n + TextLen(Tail(t))

\* str.lstrip / str.rstrip / str.strip on whitespace
RECURSIVE LStrip(_)
LStrip(t) == IF t # <<>> /\ Head(t).c = "ws" THEN LStrip(Tail(t)) ELSE t

RECURSIVE RStrip(_)
RStrip(t) ==
    IF t # <<>> /\ t[Len(t)].c = "ws" THEN RStrip(SubSeq(t, 1, Len(t) - 1)) ELSE t

Strip(t) == RStrip(LStrip(t))

\* re.search(r'[\u4e00-\u9fff]', story_text): a character of U+4E00..U+9FFF
HasChinese(t) == \E i \in 1..Len(t) : t[i].c = "han"

\* a narrative of `core` characters, the last one Chinese when han, between pads
Narrative(lead, core, han, trail) ==
    Run("ws", lead)
      \o (IF han /\ core > 0 THEN Run("lat", core - 1) \o Run("han", 1)
                             ELSE Run("lat", core))
      \o Run("ws", trail)

StoryLens == {0, 40, MinStoryLen - 1, MinStoryLen, MaxStoryLen, MaxStoryLen + 1}

Narratives ==
    {Narrative(l, n, FALSE, t) : l \in 0..MaxPad, n \in StoryLens, t \in 0..MaxPad}
      \cup {Narrative(0, MinStoryLen, TRUE, 0), Narrative(0, 40, TRUE, 0)}

(***************************************************************************)
(* Request validation (pydantic field validators).  A validator either     *)
(* raises ValueError or returns the value stored in the request model.     *)
(***************************************************************************)
\* mutant: the length is taken of the text as sent
story_text_checked_Untrimmed(v) == v

\* StoryVisualizationRequest.validate_story_text: the text it checks
\* (text = v.strip() if v else "")
story_text_checked(v) == Strip(v)

validate_story_text(v) ==
    LET text == story_text_checked(v)
    IN  IF TextLen(text) < MinStoryLen THEN [ok |-> FALSE, value |-> <<>>]
        ELSE IF TextLen(text) > MaxStoryLen THEN [ok |-> FALSE, value |-> <<>>]
        ELSE [ok |-> TRUE, value |-> text]

validate_feeling_category(v) == v \in VALID_CATEGORIES

validate_selected_emotions(v) ==
    /\ v # <<>>
    /\ \A i \in 1..Len(v) : v[i] \in VALID_EMOTIONS

(***************************************************************************)
(* JSON values, as json.loads returns them.                                *)
(*   scalar   [k, s]        k in "null", "num", "str"; s the text          *)
(*   entry    [isdict, keys, factor, insight]   one item of a factors list *)
(*   factors  [k, items]    k = "list": items are entries; any other k is  *)
(*                          a value that is no list                        *)
(*   object   [keys, central_stressor, factors, language]                  *)
(* keys is the set of keys present; a field whose key is absent holds      *)
(* JAbsent and is never read.                                              *)
(***************************************************************************)
JNull == [k |-> "null", s |-> ""]
JNum(s) == [k |-> "num", s |-> s]
JStr(s) == [k |-> "str", s |-> s]
JAbsent == [k |-> "absent", s |-> ""]

JDict(keys, factor, insight) ==
    [isdict |-> TRUE, keys |-> keys, factor |-> factor, insight |-> insight]
JNotDict == [isdict |-> FALSE, keys |-> {}, factor |-> JAbsent, insight |-> JAbsent]

JList(items) == [k |-> "list", items |-> items]
JNoList(k) == [k |-> k, items |-> <<>>]

JObject(keys, cs, fs, lang) ==
    [keys |-> keys, central_stressor |-> cs, factors |-> fs, language |-> lang]

\* a dict as the analyzer returns it: all three keys present
Result(cs, fs, lang) == [central_stressor |-> cs, factors |-> fs, language |-> lang]
Factor(f, i) == [factor |-> f, insight |-> i]

(***************************************************************************)
(* The text model's answer: response.text is a sequence of segments,       *)
(*   "txt"   text without braces (a remark, a markdown fence)              *)
(*   "obj"   the text of one well-formed JSON object, v its decoded value  *)
(*   "junk"  a brace-delimited block that is not well-formed JSON          *)
(***************************************************************************)
EmptyObject == JObject({}, JAbsent, JNoList("absent"), JAbsent)
Txt == [t |-> "txt", v |-> EmptyObject]
Junk == [t |-> "junk", v |-> EmptyObject]
Obj(v) == [t |-> "obj", v |-> v]

HasBrace(seg) == seg.t \in {"obj", "junk"}

\* re.search(r'\{[\s\S]*\}', response_text): the span (greedy) from the first
\* opening brace to the last closing brace; <<>> when there is no match
BraceSpan(text) ==
    IF \E i \in 1..Len(text) : HasBrace(text[i])
    THEN LET first == CHOOSE i \in 1..Len(text) :
                        HasBrace(text[i]) /\ \A j \in 1..(i - 1) : ~HasBrace(text[j])
             last == CHOOSE i \in 1..Len(text) :
                        HasBrace(text[i]) /\ \A j \in (i + 1)..Len(text) : ~HasBrace(text[j])
         IN  SubSeq(text, first, last)
    ELSE <<>>

\* json.loads(json_str) succeeds only on the text of exactly one JSON value
JsonDecodes(span) == Len(span) = 1 /\ span[1].t = "obj"

(***************************************************************************)
(* StoryAnalyzer._parse_response.  The value is [raised, result]: raised   *)
(* when an exception other than json.JSONDecodeError leaves the method     *)
(* (the for loop over a value that cannot be iterated: TypeError).         *)
(***************************************************************************)
BasicFallback ==
    Result(JStr("Personal Situation"),
           <<Factor(JStr("Emotional Response"),
                    JStr("Our feelings often reflect deeper needs and concerns that deserve attention."))>>,
           JStr("en"))

\* isinstance(factor, dict) and "factor" in factor
IsValidFactor(e) == e.isdict /\ "factor" \in e.keys

\* {"factor": factor.get("factor", ""), "insight": factor.get("insight", "")}
ValidatedFactor(e) ==
    Factor(IF "factor" \in e.keys THEN e.factor ELSE JStr(""),
           IF "insight" \in e.keys THEN e.insight ELSE JStr(""))

\* validated_factors[:5]
CapFactors(fs) == SubSeq(fs, 1, IF Len(fs) < MaxFactors THEN Len(fs) ELSE MaxFactors)

ValidatedFactors(items) ==
    LET kept == SelectSeq(items, IsValidFactor)
    IN  CapFactors([i \in 1..Len(kept) |-> ValidatedFactor(kept[i])])

\* `for factor in <value>`: a list yields its items, a string its characters
\* (none of them a dict); None and numbers cannot be iterated
Iterable(fs) == fs.k \in {"list", "str"}

parse_response(response_text) ==
    LET span == BraceSpan(response_text)
    IN  IF span # <<>> /\ JsonDecodes(span)
        THEN LET obj == span[1].v
                 cs == IF "central_stressor" \in obj.keys THEN obj.central_stressor
                       ELSE JStr("Unidentified situation")
                 fs == IF "factors" \in obj.keys THEN obj.factors ELSE JList(<<>>)
                 lang == IF "language" \in obj.keys THEN obj.language ELSE JStr("en")
             IN  IF Iterable(fs)
                 THEN [raised |-> FALSE,
                       result |-> Result(cs, ValidatedFactors(fs.items), lang)]
                 ELSE [raised |-> TRUE, result |-> BasicFallback]
        ELSE [raised |-> FALSE, result |-> BasicFallback]

(***************************************************************************)
(* StoryAnalyzer._generate_fallback_analysis.  The Chinese table's texts   *)
(* are written Zh(<the English entry>): the model needs them distinct from *)
(* the English ones, not their wording.                                    *)
(***************************************************************************)
Zh(s) == "zh:" \o s

emotion_to_factor ==
    [e \in VALID_EMOTIONS |->
        CASE e = "super_happy" -> <<"Positive Achievement", "Our brains are wired to seek accomplishment; this feeling reflects successful goal pursuit and social validation.">>
          [] e = "pumped" -> <<"Excitement", "Heightened arousal prepares us for action; we often feel most alive when anticipating positive outcomes.">>
          [] e = "cozy" -> <<"Comfort", "The need for safety is fundamental; feeling secure allows our nervous system to relax and restore.">>
          [] e = "chill" -> <<"Relaxation", "A calm state signals that immediate threats are absent, allowing mental resources to be redirected toward reflection.">>
          [] e = "content" -> <<"Satisfaction", "Contentment arises when our current reality aligns with our expectations; we feel 'enough' in this moment.">>
          [] e = "fuming" -> <<"Frustration", "Anger often masks underlying feelings of powerlessness; it signals that something important to us feels threatened.">>
          [] e = "freaked_out" -> <<"Anxiety", "We tend to overestimate threats and underestimate our ability to cope; uncertainty triggers protective vigilance.">>
          [] e = "mad_as_hell" -> <<"Intense Anger", "Strong anger often indicates a perceived violation of fairness or boundaries that matter deeply to us.">>
          [] e = "blah" -> <<"Apathy", "Lack of motivation can signal emotional exhaustion or disconnection from activities that once held meaning.">>
          [] e = "down" -> <<"Sadness", "Sadness often reflects loss or unmet expectations; it invites us to slow down and process what matters.">>
          [] e = "bored_stiff" -> <<"Monotony", "Boredom signals a gap between our need for stimulation and our current environment; it can prompt growth-seeking.">>]

emotion_to_factor_zh ==
    [e \in VALID_EMOTIONS |-> <<Zh(emotion_to_factor[e][1]), Zh(emotion_to_factor[e][2])>>]

GenericFactor(language) ==
    IF language = "zh"
    THEN Factor(JStr(Zh("Emotional Response")),
                JStr(Zh("Our feelings often reflect deeper needs and concerns that deserve attention.")))
    ELSE Factor(JStr("Emotional Response"),
                JStr("Our feelings often reflect deeper needs and concerns that deserve attention."))

\* mutant: every selected emotion is looked up, selected_emotions[:]
FirstEmotions_All(selected_emotions) == selected_emotions

\* selected_emotions[:4]
FirstEmotions(selected_emotions) ==
    SubSeq(selected_emotions, 1,
           IF Len(selected_emotions) < MaxFallbackEmotions THEN Len(selected_emotions)
           ELSE MaxFallbackEmotions)

InFactorMap(e) == e \in DOMAIN emotion_to_factor

\* mutant: the factors are always taken from the English table
generate_fallback_analysis_EnglishTable(story_text, selected_emotions) ==
    LET language == IF HasChinese(story_text) THEN "zh" ELSE "en"
        factor_map == emotion_to_factor
        known == SelectSeq(FirstEmotions(selected_emotions), InFactorMap)
        factors == [i \in 1..Len(known) |->
                      Factor(JStr(factor_map[known[i]][1]), JStr(factor_map[known[i]][2]))]
        central == IF language = "zh" THEN Zh("Current Situation") ELSE "Current Situation"
    IN  Result(JStr(central),
               IF factors # <<>> THEN factors ELSE <<GenericFactor(language)>>,
               JStr(language))

generate_fallback_analysis(story_text, selected_emotions) ==
    LET language == IF HasChinese(story_text) THEN "zh" ELSE "en"
        factor_map == IF language = "zh" THEN emotion_to_factor_zh ELSE emotion_to_factor
        known == SelectSeq(FirstEmotions(selected_emotions), InFactorMap)
        factors == [i \in 1..Len(known) |->
                      Factor(JStr(factor_map[known[i]][1]), JStr(factor_map[known[i]][2]))]
        central == IF language = "zh" THEN Zh("Current Situation") ELSE "Current Situation"
    IN  Result(JStr(central),
               IF factors # <<>> THEN factors ELSE <<GenericFactor(language)>>,
               JStr(language))

(***************************************************************************)
(* StoryAnalyzer.analyze_story.  behaviour is what the external text model *)
(* does with the call: it raises, or it returns an answer with this text.  *)
(***************************************************************************)
\* mutant: a failed call is answered with the fixed fallback of _parse_response
analyze_story_FixedFallback(story_text, selected_emotions, behaviour) ==
    IF behaviour.raises
    THEN BasicFallback
    ELSE LET parsed == parse_response(behaviour.text)
         IN  IF parsed.raised
             THEN generate_fallback_analysis(story_text, selected_emotions)
             ELSE parsed.result

analyze_story(story_text, selected_emotions, behaviour) ==
    IF behaviour.raises
    THEN generate_fallback_analysis(story_text, selected_emotions)
    ELSE LET parsed == parse_response(behaviour.text)
         IN  IF parsed.raised
             THEN generate_fallback_analysis(story_text, selected_emotions)
             ELSE parsed.result

(***************************************************************************)
(* What the external text model may do (the inputs of analyze_story).      *)
(***************************************************************************)
Digit(i) == SubSeq("0123456789", i + 1, i + 1)

\* the i-th well-formed entry of a factors list
GoodEntry(i) ==
    JDict({"factor", "insight"}, JStr("Factor " \o Digit(i)), JStr("Insight " \o Digit(i)))

GoodEntries(n) == [i \in 1..n |-> GoodEntry(i)]

NoLabelEntry == JDict({"insight"}, JAbsent, JStr("Insight without label"))
NoInsightEntry == JDict({"factor"}, JStr("Label without insight"), JAbsent)
NullLabelEntry == JDict({"factor", "insight"}, JNull, JStr("Insight of null label"))
NumLabelEntry == JDict({"factor", "insight"}, JNum("7"), JStr("Insight of number label"))
NullInsightEntry == JDict({"factor", "insight"}, JStr("Label of null insight"), JNull)

FactorsChoices ==
    {JNoList("absent"), JNoList("null"), JNoList("num"), JNoList("str")}
      \cup {JList(GoodEntries(n)) : n \in 0..MaxEntries}
      \cup {JList(<<GoodEntry(1), NoLabelEntry, GoodEntry(3)>>),
            JList(<<JNotDict, GoodEntry(2)>>),
            JList(<<NoLabelEntry, JNotDict>>),
            JList(<<NoInsightEntry, GoodEntry(2)>>),
            JList(<<NullLabelEntry, GoodEntry(2)>>),
            JList(<<NumLabelEntry>>),
            JList(<<GoodEntry(1), NullInsightEntry>>)}

StressorChoices ==
    {JAbsent, JNull, JNum("7"), JStr(""), JStr("Workplace Conflict")}

LanguageChoices == {JAbsent, JNull, JNum("7"), JStr("en"), JStr("zh")}

\* the JSON object with these members; JAbsent / JNoList("absent") leave the key out
MkObject(cs, fs, lang) ==
    JObject((IF cs.k = "absent" THEN {} ELSE {"central_stressor"})
              \cup (IF fs.k = "absent" THEN {} ELSE {"factors"})
              \cup (IF lang.k = "absent" THEN {} ELSE {"language"}),
            cs, fs, lang)

BaseObject == MkObject(JStr("Workplace Conflict"), JList(GoodEntries(3)), JStr("en"))

\* one member varied at a time
Objects ==
    {MkObject(cs, BaseObject.factors, BaseObject.language) : cs \in StressorChoices}
      \cup {MkObject(BaseObject.central_stressor, fs, BaseObject.language) : fs \in FactorsChoices}
      \cup {MkObject(BaseObject.central_stressor, BaseObject.factors, lang) : lang \in LanguageChoices}
      \cup {MkObject(JAbsent, JNoList("absent"), JAbsent)}

ResponseTexts ==
    {<<>>, <<Txt>>, <<Junk>>, <<Txt, Junk, Txt>>}
      \cup {<<Obj(o)>> : o \in Objects}
      \cup {<<Txt, Obj(BaseObject), Txt>>,
            <<Obj(BaseObject), Txt, Junk>>,
            <<Obj(BaseObject), Obj(MkObject(JStr("Second"), JList(GoodEntries(1)), JStr("en")))>>}

TextModelBehaviours ==
    {[raises |-> TRUE, text |-> <<>>]}
      \cup {[raises |-> FALSE, text |-> t] : t \in ResponseTexts}

(***************************************************************************)
(* Generation Client: error texts and their classification in              *)
(* generate_visualization_image.                                           *)
(***************************************************************************)
\* texts of exceptions (str(e)) the external service or the renderer may raise
ErrTexts ==
    {"The prompt was blocked by safety filters",
     "400 API key not valid: invalid API key",
     "503 Service Unavailable"}

TimedOutMessage == "Image generation timed out"
FilteredMessage == "Content was filtered by safety settings"
InvalidKeyMessage == "Invalid API key configuration"
AfterRetriesMessage == "Image generation failed after retries"
FailedMessage(e) == "Image generation failed: " \o e

NoException == ""    \* last_exception = None

\* "safety" in error_str or "blocked" in error_str
IsSafetyError(e) ==
    \E error_str \in {Lower(e)} :
        Contains(error_str, "safety") \/ Contains(error_str, "blocked")

\* "invalid" in error_str and "api key" in error_str
IsInvalidKeyError(e) ==
    \E error_str \in {Lower(e)} :
        Contains(error_str, "invalid") /\ Contains(error_str, "api key")

IsTerminal(e) == IsSafetyError(e) \/ IsInvalidKeyError(e)

\* mutant: the loop runs once more, range(self.max_retries + 2)
RangeStop_OneMore == max_retries + 2

\* range(self.max_retries + 1): the first value that is not an attempt
RangeStop == max_retries + 1

\* mutant: the sleep is not skipped after the last attempt
SleepsAfter_Always(a) == a <= max_retries

\* if attempt < self.max_retries: await asyncio.sleep(...)
SleepsAfter(a) == a < max_retries

RECURSIVE Pow2(_)
Pow2(n) == IF n = 0 THEN 1 ELSE 2 * Pow2(n - 1)

\* 1 * (2 ** attempt)
Backoff(a) == 1 * Pow2(a)

(***************************************************************************)
(* The boundary: handle_generation_error and the story response.           *)
(* An exception is [type, text]; the mapper's value is the HTTPException   *)
(* it raises, [status, code].                                              *)
(***************************************************************************)
GeminiAPIError(text) == [type |-> "GeminiAPIError", text |-> text]
\* no exception
NothingCaught == [type |-> "", text |-> ""]
\* raise HTTPException(status_code=..., detail={"error": {"code", "message"}})
HTTPException(status, code, message) ==
    [raised |-> "HTTPException", status |-> status, code |-> code, message |-> message]
\* pydantic_core.ValidationError, a ValueError
ModelValidationError(what) ==
    [type |-> "ValueError", text |-> "1 validation error for " \o what]

\* mutant: the safety/filter marker is tested before the timeout marker
handle_generation_error_SafetyFirst(e) ==
    IF e.type = "GeminiAPIError"
    THEN LET error_str == Lower(e.text)
         IN  IF Contains(error_str, "safety") \/ Contains(error_str, "filter")
             THEN HTTPException(400, "CONTENT_FILTERED",
                                "Unable to create visualization for this input. Please try different wording.")
             ELSE IF Contains(error_str, "timeout")
             THEN HTTPException(504, "GENERATION_TIMEOUT",
                                "Image generation timed out. Please try again.")
             ELSE IF Contains(error_str, "api key")
             THEN HTTPException(503, "CONFIGURATION_ERROR",
                                "Service configuration error. Please contact support.")
             ELSE HTTPException(503, "GENERATION_SERVICE_ERROR",
                                "Image generation service is temporarily unavailable.")
    ELSE IF e.type = "ValueError"
    THEN IF Contains(e.text, "at least 50 characters")
         THEN HTTPException(400, "TEXT_TOO_SHORT", "Please share more about your feelings")
         ELSE HTTPException(400, "VALIDATION_ERROR", e.text)
    ELSE HTTPException(500, "INTERNAL_ERROR", "An unexpected error occurred")

handle_generation_error(e) ==
    IF e.type = "GeminiAPIError"
    THEN LET error_str == Lower(e.text)
         IN  IF Contains(error_str, "timeout")
             THEN HTTPException(504, "GENERATION_TIMEOUT",
                                "Image generation timed out. Please try again.")
             ELSE IF Contains(error_str, "safety") \/ Contains(error_str, "filter")
             THEN HTTPException(400, "CONTENT_FILTERED",
                                "Unable to create visualization for this input. Please try different wording.")
             ELSE IF Contains(error_str, "api key")
             THEN HTTPException(503, "CONFIGURATION_ERROR",
                                "Service configuration error. Please contact support.")
             ELSE HTTPException(503, "GENERATION_SERVICE_ERROR",
                                "Image generation service is temporarily unavailable.")
    ELSE IF e.type = "ValueError"
    THEN IF Contains(e.text, "at least 50 characters")
         THEN HTTPException(400, "TEXT_TOO_SHORT", "Please share more about your feelings")
         ELSE HTTPException(400, "VALIDATION_ERROR", e.text)
    ELSE HTTPException(500, "INTERNAL_ERROR", "An unexpected error occurred")

\* dict.get(key, default) on a factor dict of the analyzer
Get(f, key, default) == IF key \in DOMAIN f THEN f[key] ELSE default

\* a pydantic `str` field accepts a str and nothing else (None, int: error)
IsStr(v) == v.k = "str"

\* EmotionalFactor(factor=f.get("factor", ""), description=f.get("description", ""))
EmotionalFactorArgs(f) ==
    [factor |-> Get(f, "factor", JStr("")), description |-> Get(f, "description", JStr(""))]

\* StoryAnalysis(central_stressor=..., factors=[...], language=...): the
\* arguments, then whether the models validate, then the model built
StoryAnalysisArgs(a) ==
    [central_stressor |-> a.central_stressor,
     factors |-> [i \in 1..Len(a.factors) |-> EmotionalFactorArgs(a.factors[i])],
     language |-> a.language]

StoryAnalysisValid(args) ==
    /\ IsStr(args.central_stressor)
    /\ IsStr(args.language)
    /\ \A i \in 1..Len(args.factors) :
          IsStr(args.factors[i].factor) /\ IsStr(args.factors[i].description)

StoryAnalysis(args) ==
    [central_stressor |-> args.central_stressor.s,
     factors |-> [i \in 1..Len(args.factors) |->
                    [factor |-> args.factors[i].factor.s,
                     description |-> args.factors[i].description.s]],
     language |-> args.language.s]

(***************************************************************************)
(* Prompt Builder: the Emotion Profile Registry and get_dominant_colors.   *)
(***************************************************************************)
EmotionProfile(description, colors, hex_colors, shapes, energy) ==
    [description |-> description, colors |-> colors, hex_colors |-> hex_colors,
     shapes |-> shapes, energy |-> energy]

EMOTION_PROFILES ==
    [e \in VALID_EMOTIONS |->
        CASE e = "super_happy" ->
               EmotionProfile("joyful, bright, and uplifting energy",
                              <<"warm yellow", "soft orange", "light pink">>,
                              <<"#FFE4A0", "#FFB899", "#FFD4E5">>,
                              "rising curves and radiating patterns", "moderate")
          [] e = "pumped" ->
               EmotionProfile("dynamic, energetic, and vibrant spirit",
                              <<"coral", "peach", "warm gold">>,
                              <<"#FFB5A0", "#FFDAB9", "#FFD700">>,
                              "bold curves and expanding circles", "intense")
          [] e = "cozy" ->
               EmotionProfile("warm, comfortable, and enveloping feeling",
                              <<"warm beige", "soft terracotta", "cream">>,
                              <<"#D4B896", "#E2A68F", "#FFFDD0">>,
                              "rounded and nested shapes", "calm")
          [] e = "chill" ->
               EmotionProfile("calm, relaxed, and flowing state",
                              <<"cool mint", "soft sage", "pale blue">>,
                              <<"#A8E6CF", "#9DC183", "#ADD8E6">>,
                              "gentle waves and horizontal flow", "calm")
          [] e = "content" ->
               EmotionProfile("peaceful, balanced, and satisfied feeling",
                              <<"soft lavender", "dusty rose", "warm gray">>,
                              <<"#D4C4E8", "#D4A5A5", "#C4C4BC">>,
                              "centered, symmetrical, complete circles", "calm")
          [] e = "fuming" ->
               EmotionProfile("contained intensity and simmering energy",
                              <<"muted coral", "dusty red", "warm gray">>,
                              <<"#E8A0A0", "#C25A5A", "#A89F9F">>,
                              "contained spirals with inward pressure", "intense")
          [] e = "freaked_out" ->
               EmotionProfile("scattered, anxious, and unsettled feeling",
                              <<"pale violet", "soft gray", "muted blue">>,
                              <<"#C8A0E8", "#B0B0B0", "#8FA8C8">>,
                              "dispersed elements and irregular patterns", "intense")
          [] e = "mad_as_hell" ->
               EmotionProfile("heavy, dense, and pressured energy",
                              <<"deep mauve", "muted burgundy", "charcoal">>,
                              <<"#8B4570", "#722F37", "#36454F">>,
                              "dense centers and heavy forms", "intense")
          [] e = "blah" ->
               EmotionProfile("flat, neutral, and unmotivated state",
                              <<"gray tones", "muted beige", "pale taupe">>,
                              <<"#B0C4D4", "#C4B8A8", "#B8AFA0">>,
                              "horizontal layers and static forms", "calm")
          [] e = "down" ->
               EmotionProfile("low, weighted, and subdued feeling",
                              <<"cool gray-blue", "pale indigo", "soft navy">>,
                              <<"#A0B8D4", "#9FA8DA", "#6B7B8C">>,
                              "downward curves and sinking shapes", "calm")
          [] e = "bored_stiff" ->
               EmotionProfile("empty, monotonous, and unstimulated feeling",
                              <<"neutral grays", "pale olive", "muted tan">>,
                              <<"#D4D0C4", "#C5C99B", "#C2B280">>,
                              "regular, repetitive, sparse patterns", "calm")]

FALLBACK_COLORS == <<"#FFD700", "#FF6B6B", "#4ECDC4", "#A78BFA">>

\* x in <list>
InSeq(x, seq) == \E i \in 1..Len(seq) : seq[i] = x

\* seq[:n]
Take(seq, n) == SubSeq(seq, 1, IF Len(seq) < n THEN Len(seq) ELSE n)

\* EMOTION_PROFILES.get(emotion_id) is a profile (not None)
HasProfile(emotion_id) == emotion_id \in DOMAIN EMOTION_PROFILES

\* the first loop of get_dominant_colors: the first hex color of each emotion
\* that has a profile with hex colors
RECURSIVE FirstHexColors(_)
FirstHexColors(selected_emotions) ==
    IF selected_emotions = <<>> THEN <<>>
    ELSE LET emotion_id == Head(selected_emotions)
             rest == FirstHexColors(Tail(selected_emotions))
         IN  IF HasProfile(emotion_id) /\ EMOTION_PROFILES[emotion_id].hex_colors # <<>>
             THEN <<EMOTION_PROFILES[emotion_id].hex_colors[1]>> \o rest
             ELSE rest

\* mutant: the fallback loop breaks once there are 3 colors
RECURSIVE AddFallbacks_StopAtThree(_, _)
AddFallbacks_StopAtThree(colors, i) ==
    IF i > Len(FALLBACK_COLORS) THEN colors
    ELSE LET added == IF InSeq(FALLBACK_COLORS[i], colors) THEN colors
                      ELSE Append(colors, FALLBACK_COLORS[i])
         IN  IF Len(added) >= 3 THEN added ELSE AddFallbacks_StopAtThree(added, i + 1)

\* for fallback in FALLBACK_COLORS (from the i-th on): append it when it is not
\* in colors yet; break once there are 4
RECURSIVE AddFallbacks(_, _)
AddFallbacks(colors, i) ==
    IF i > Len(FALLBACK_COLORS) THEN colors
    ELSE LET added == IF InSeq(FALLBACK_COLORS[i], colors) THEN colors
                      ELSE Append(colors, FALLBACK_COLORS[i])
         IN  IF Len(added) >= 4 THEN added ELSE AddFallbacks(added, i + 1)

\* mutant: the fallback colors are added only to an empty list
get_dominant_colors_FillWhenEmpty(selected_emotions) ==
    LET colors == FirstHexColors(selected_emotions)
    IN  Take(IF Len(colors) < 1 THEN AddFallbacks(colors, 1) ELSE colors,
             DominantColorsCap)

get_dominant_colors(selected_emotions) ==
    LET colors == FirstHexColors(selected_emotions)
    IN  Take(IF Len(colors) < DominantColorsWanted THEN AddFallbacks(colors, 1) ELSE colors,
             DominantColorsCap)

(***************************************************************************)
(* Prompt Builder: build_feeling_prompt.                                   *)
(*                                                                         *)
(* _get_color_palette collects the color names in a Python set and takes   *)
(* list(colors)[:5].  A set of str iterates in the order of its hash       *)
(* table, and str hashes are keyed with a seed drawn when the process      *)
(* starts.  The model's hash is a keyed polynomial over the characters;    *)
(* names of equal hash keep their insertion order.                         *)
(***************************************************************************)
HashAlphabet == "abcdefghijklmnopqrstuvwxyz -"

CharCode(c) ==
    IF \E i \in 1..Len(HashAlphabet) : SubSeq(HashAlphabet, i, i) = c
    THEN CHOOSE i \in 1..Len(HashAlphabet) : SubSeq(HashAlphabet, i, i) = c
    ELSE 0

\* hash(str) under the process's seed
RECURSIVE StrHash(_, _, _)
StrHash(seed, h, str) ==
    IF Len(str) = 0 THEN h
    ELSE StrHash(seed, (h * (31 + seed) + CharCode(SubSeq(str, 1, 1))) % 1009,
                 SubSeq(str, 2, Len(str)))

Hash(seed, str) == StrHash(seed, 7, str)

\* set.add / set.update: the members, in insertion order, without duplicates
RECURSIVE Update(_, _)
Update(members, names) ==
    IF names = <<>> THEN members
    ELSE Update(IF InSeq(Head(names), members) THEN members
                ELSE Append(members, Head(names)),
                Tail(names))

\* list(<set>): the members in the order of their hashes
RECURSIVE InsertByHash(_, _, _)
InsertByHash(seed, x, sorted) ==
    IF sorted = <<>> THEN <<x>>
    ELSE IF Hash(seed, x) < Hash(seed, Head(sorted)) THEN <<x>> \o sorted
    ELSE <<Head(sorted)>> \o InsertByHash(seed, x, Tail(sorted))

RECURSIVE ListOfSet(_, _)
ListOfSet(seed, members) ==
    IF members = <<>> THEN <<>>
    ELSE InsertByHash(seed, members[Len(members)],
                      ListOfSet(seed, SubSeq(members, 1, Len(members) - 1)))

\* sep.join(strings)
RECURSIVE Join(_, _)
Join(sep, strings) ==
    IF strings = <<>> THEN ""
    ELSE IF Len(strings) = 1 THEN strings[1]
    ELSE strings[1] \o sep \o Join(sep, Tail(strings))

\* the profiles of the emotions that have one, in the order of the sequence
Profiles(selected_emotions) ==
    LET known == SelectSeq(selected_emotions, HasProfile)
    IN  [i \in 1..Len(known) |-> EMOTION_PROFILES[known[i]]]

FEELING_BASE_STYLE ==
    "\nAbstract art visualization with these characteristics:\n"
      \o "- Abstract style with no recognizable objects or people\n"
      \o "- Soft, muted colors with low saturation (pastel tones)\n"
      \o "- Symmetrical or balanced composition\n"
      \o "- Smooth gradients and flowing shapes\n"
      \o "- Absolutely NO text, letters, words, or numbers\n"

\* category_desc.get(feeling_category, "")
category_desc(feeling_category) ==
    CASE feeling_category = "good" -> "overall positive emotional state"
      [] feeling_category = "bad" -> "challenging emotional state"
      [] feeling_category = "not_sure" -> "mixed or uncertain emotional state"
      [] OTHER -> ""

build_emotion_description(selected_emotions, feeling_category) ==
    LET profiles == Profiles(selected_emotions)
        descriptions == [i \in 1..Len(profiles) |-> profiles[i].description]
                          \o <<category_desc(feeling_category)>>
    IN  IF descriptions # <<>> THEN Join(" ", descriptions) ELSE "general emotional state"

RECURSIVE ProfileColors(_)
ProfileColors(profiles) ==
    IF profiles = <<>> THEN <<>>
    ELSE Update(ProfileColors(SubSeq(profiles, 1, Len(profiles) - 1)),
                profiles[Len(profiles)].colors)

get_color_palette(seed, selected_emotions, feeling_category) ==
    LET collected == ProfileColors(Profiles(selected_emotions))
        colors == IF collected # <<>> THEN collected
                  ELSE IF feeling_category = "good"
                  THEN <<"soft warm tones", "light pastels", "gentle yellows">>
                  ELSE IF feeling_category = "bad"
                  THEN <<"muted cool tones", "soft grays", "pale blues">>
                  ELSE <<"neutral pastels", "soft balanced tones">>
    IN  "Use " \o Join(", ", Take(ListOfSet(seed, colors), 5))

get_shape_guidance(selected_emotions) ==
    LET profiles == Profiles(selected_emotions)
        shapes == [i \in 1..Len(profiles) |-> profiles[i].shapes]
    IN  IF shapes # <<>> THEN "Incorporate " \o Join(" and ", Take(shapes, 3)) ELSE ""

MoodClause(mood_desc) == "\nMOOD TO VISUALIZE:\n" \o mood_desc
ColorClause(colors) == "\nCOLOR PALETTE:\n" \o colors

build_feeling_prompt(seed, feeling_category, selected_emotions) ==
    LET mood_desc == build_emotion_description(selected_emotions, feeling_category)
        colors == get_color_palette(seed, selected_emotions, feeling_category)
        shapes == get_shape_guidance(selected_emotions)
        parts == <<FEELING_BASE_STYLE, MoodClause(mood_desc), ColorClause(colors)>>
                   \o (IF shapes # "" THEN <<"\nSHAPE GUIDANCE:\n" \o shapes>> ELSE <<>>)
                   \o <<"\nCreate a calming, aesthetically pleasing square image.">>
    IN  Join("\n", parts)

(***************************************************************************)
(* Prompt Builder: build_story_prompt.  central_stressor and the factors'  *)
(* fields are the values the analyzer returned (JSON values); story_text   *)
(* is the validated narrative as a string.                                 *)
(***************************************************************************)
\* bool(v) of a JSON value: None, "" and 0 are false
Truthy(v) ==
    \/ v.k = "str" /\ v.s # ""
    \/ v.k = "num" /\ v.s # "0"

\* f"{v}"
Format(v) == IF v.k = "null" THEN "None" ELSE v.s

STORY_BASE_STYLE ==
    "\nCreate a minimalist 2D cartoon illustration with these characteristics:\n"
      \o "- Minimalist, flat 2D cartoon style (clean, simple, not detailed)\n"
      \o "- SYMMETRICAL composition - balanced layout with central focus\n"
      \o "- White or light neutral background\n"
      \o "- Gentle pastel colors\n"
      \o "- No text, letters, words, or numbers in the image\n"
      \o "- Clean lines, minimal detail\n"
      \o "- Friendly and non-threatening visual style\n"

STORY_FINAL_INSTRUCTION ==
    "\nCreate a minimalist 2D cartoon infographic:\n"
      \o "- SYMMETRICAL composition with balanced layout\n"
      \o "- Central icon in the middle representing the main situation\n"
      \o "- Surrounding icons arranged symmetrically around the center (like a mind-map)\n"
      \o "- Clean lines, flat design, minimal detail\n"
      \o "- NO text labels in the image\n"
      \o "- White or light neutral background\n"
      \o "- Connected with simple lines from center to surrounding icons\n"
      \o "- Soft pastel colors based on emotional tone\n"
      \o "- Child-friendly, non-threatening visual style\n"
      \o "\n"
      \o "Example composition:\n"
      \o "        [Factor]          [Factor]\n"
      \o "              \\              /\n"
      \o "               \\            /\n"
      \o "                [ Central  ]\n"
      \o "               /            \\\n"
      \o "              /              \\\n"
      \o "        [Factor]          [Factor]"

\* str.strip() of a string
RECURSIVE StripText(_)
StripText(s) ==
    IF Len(s) > 0 /\ SubSeq(s, 1, 1) \in {" ", "\n"} THEN StripText(SubSeq(s, 2, Len(s)))
    ELSE IF Len(s) > 0 /\ SubSeq(s, Len(s), Len(s)) \in {" ", "\n"}
    THEN StripText(SubSeq(s, 1, Len(s) - 1))
    ELSE s

\* _summarize_story(text, max_length=300)
summarize_story(text) ==
    LET stripped == StripText(text)
    IN  IF Len(stripped) <= 300 THEN stripped ELSE SubSeq(stripped, 1, 297) \o "..."

\* emotion_id.replace("_", " ")
RECURSIVE ReadableName(_)
ReadableName(emotion_id) ==
    IF emotion_id = "" THEN ""
    ELSE (IF SubSeq(emotion_id, 1, 1) = "_" THEN " " ELSE SubSeq(emotion_id, 1, 1))
           \o ReadableName(SubSeq(emotion_id, 2, Len(emotion_id)))

build_emotion_context(selected_emotions, feeling_category) ==
    LET known == SelectSeq(selected_emotions, HasProfile)
        emotion_names == [i \in 1..Len(known) |-> ReadableName(known[i])]
        energy_levels == [i \in 1..Len(known) |-> EMOTION_PROFILES[known[i]].energy]
        names_part == IF emotion_names # <<>>
                      THEN <<"The person feels: " \o Join(", ", emotion_names)>>
                      ELSE <<>>
        energy_part == IF InSeq("intense", energy_levels)
                       THEN "The emotional intensity is high."
                       ELSE IF \A i \in 1..Len(energy_levels) : energy_levels[i] = "calm"
                       THEN "The emotional state is calm and subdued."
                       ELSE "The emotional state is moderate."
    IN  Join(" ", names_part \o <<energy_part>>)

\* [f.get("factor", "") for f in factors if f.get("factor")]
FactorNames(factors) ==
    LET Named(f) == Truthy(f.factor)
        named == SelectSeq(factors, Named)
    IN  [i \in 1..Len(named) |-> Format(named[i].factor)]

build_story_prompt(seed, story_text, feeling_category, selected_emotions, central_stressor, factors) ==
    LET situation == IF Truthy(central_stressor)
                     THEN "\nCENTRAL SITUATION:\n" \o Format(central_stressor)
                     ELSE "\nSTORY TO ILLUSTRATE:\n" \o summarize_story(story_text)
        factor_names == FactorNames(factors)
        icons == IF factor_names # <<>>
                 THEN <<"\nEMOTIONAL FACTORS TO SHOW AS ICONS:\n"
                          \o Join("\n", [i \in 1..Len(factor_names) |-> "- " \o factor_names[i]])>>
                 ELSE <<>>
        emotion_context == build_emotion_context(selected_emotions, feeling_category)
        colors == get_color_palette(seed, selected_emotions, feeling_category)
        parts == <<STORY_BASE_STYLE, situation>> \o icons
                   \o <<"\nEMOTIONAL CONTEXT:\n" \o emotion_context,
                        "\nCOLOR MOOD:\n" \o colors,
                        STORY_FINAL_INSTRUCTION>>
    IN  Join("\n", parts)

(***************************************************************************)
(* Placeholder Renderer: GeminiClient._generate_placeholder_image and the  *)
(* two layouts.  What is drawn is recorded as data: the layout, the        *)
(* palette of the abstract layout, the labels of the radial diagram and    *)
(* the lines each label is drawn on.                                       *)
(***************************************************************************)
CentralMaxChars == 25     \* max_chars = 25
FactorMaxChars == 18      \* if len(label) > 18
MaxNodes == 4             \* factor_matches[:4]

Quote == "\""

\* the least index >= from at which sub occurs in s, 0 when there is none
IndexOf(s, sub, from) ==
    LET hits == {i \in from..(Len(s) - Len(sub) + 1) : SubSeq(s, i, i + Len(sub) - 1) = sub}
    IN  IF hits = {} THEN 0 ELSE CHOOSE i \in hits : \A j \in hits : i <= j

\* sub occurs in s at index i
OccursAt(s, i, sub) ==
    /\ i >= 1
    /\ i + Len(sub) - 1 <= Len(s)
    /\ SubSeq(s, i, i + Len(sub) - 1) = sub

\* any(word in prompt_lower for word in words)
AnyWordIn(words, prompt_lower) == \E word \in words : Contains(prompt_lower, word)

\* _generate_abstract_placeholder: the palette (color1, color2, accent)
generate_abstract_placeholder(prompt_lower) ==
    IF AnyWordIn({"happy", "joy", "bright", "warm"}, prompt_lower) THEN "happy_warm"
    ELSE IF AnyWordIn({"calm", "chill", "peaceful", "relaxed"}, prompt_lower) THEN "calm_chill"
    ELSE IF AnyWordIn({"sad", "down", "low"}, prompt_lower) THEN "sad_down"
    ELSE IF AnyWordIn({"angry", "fuming", "intense"}, prompt_lower) THEN "angry_intense"
    ELSE "neutral"

\* re.search(r'label "([^"]+)" below it', prompt): group(1) of the leftmost
\* match, "" when there is no match.  [^"]+ runs to the next quote, which
\* must be followed by ` below it`.
CentralMatch(prompt) ==
    LET open == "label " \o Quote
        close == Quote \o " below it"
        EndQuote(i) == IndexOf(prompt, Quote, i + Len(open))
        Matches(i) == /\ OccursAt(prompt, i, open)
                      /\ EndQuote(i) > i + Len(open)
                      /\ OccursAt(prompt, EndQuote(i), close)
        starts == {i \in 1..Len(prompt) : Matches(i)}
    IN  IF starts = {} THEN ""
        ELSE LET first == CHOOSE i \in starts : \A j \in starts : i <= j
             IN  SubSeq(prompt, first + Len(open), EndQuote(first) - 1)

\* re.findall(r'Icon \+ label: "([^"]+)"', prompt), scanning from `from`
RECURSIVE FactorMatches(_, _)
FactorMatches(prompt, from) ==
    LET open == "Icon + label: " \o Quote
        i == IndexOf(prompt, open, from)
    IN  IF i = 0 THEN <<>>
        ELSE LET q == IndexOf(prompt, Quote, i + Len(open))
             IN  IF q > i + Len(open)
                 THEN <<SubSeq(prompt, i + Len(open), q - 1)>> \o FactorMatches(prompt, q + 1)
                 ELSE FactorMatches(prompt, i + 1)

\* str.split(): the maximal runs of characters that are not whitespace
RECURSIVE SplitFrom(_, _, _)
SplitFrom(s, i, word) ==
    IF i > Len(s) THEN (IF word = "" THEN <<>> ELSE <<word>>)
    ELSE IF SubSeq(s, i, i) \in {" ", "\n", "\t"}
    THEN (IF word = "" THEN <<>> ELSE <<word>>) \o SplitFrom(s, i + 1, "")
    ELSE SplitFrom(s, i + 1, word \o SubSeq(s, i, i))

Split(s) == SplitFrom(s, 1, "")

\* the loop over words of the central label: lines finished so far and
\* current_line
RECURSIVE WrapWords(_, _, _)
WrapWords(words, lines, current_line) ==
    IF words = <<>>
    THEN (IF current_line # "" THEN Append(lines, current_line) ELSE lines)
    ELSE LET word == Head(words)
         IN  IF Len(current_line \o " " \o word) <= CentralMaxChars
             THEN WrapWords(Tail(words), lines,
                            IF current_line = "" THEN word ELSE current_line \o " " \o word)
             ELSE WrapWords(Tail(words),
                            IF current_line # "" THEN Append(lines, current_line) ELSE lines,
                            word)

\* the lines of the central label
CentralLines(central_stressor) ==
    IF Len(central_stressor) > CentralMaxChars
    THEN WrapWords(Split(central_stressor), <<>>, "")
    ELSE <<central_stressor>>

\* the lines of a factor label
FactorLines(label) ==
    IF Len(label) > FactorMaxChars
    THEN LET words == Split(label)
         IN  IF Len(words) >= 2
             THEN LET mid == Len(words) \div 2
                  IN  <<Join(" ", SubSeq(words, 1, mid)),
                        Join(" ", SubSeq(words, mid + 1, Len(words)))>>
             ELSE <<SubSeq(label, 1, FactorMaxChars),
                    SubSeq(label, FactorMaxChars + 1, Len(label))>>
    ELSE <<label>>

\* while len(factors) < 4: factors.append("")
RECURSIVE PadFactors(_)
PadFactors(factors) ==
    IF Len(factors) < MaxNodes THEN PadFactors(Append(factors, "")) ELSE factors

generate_mindmap_placeholder(prompt) ==
    LET central_match == CentralMatch(prompt)
        central_stressor == IF central_match # "" THEN central_match ELSE "Main Issue"
        factor_matches == FactorMatches(prompt, 1)
        found == Take(factor_matches, MaxNodes)
        factors == PadFactors(IF found # <<>> THEN found
                              ELSE <<"Factor 1", "Factor 2", "Factor 3", "Factor 4">>)
    IN  [layout |-> "mindmap", palette |-> "",
         central_stressor |-> central_stressor, factors |-> factors,
         central_lines |-> CentralLines(central_stressor),
         factor_lines |-> [i \in 1..Len(factors) |-> FactorLines(factors[i])]]

\* mutant: only the "central situation" phrase selects the radial diagram
generate_placeholder_image_OnePhrase(prompt) ==
    LET prompt_lower == Lower(prompt)
        is_story == Contains(prompt_lower, "central situation")
    IN  IF is_story THEN generate_mindmap_placeholder(prompt)
        ELSE [layout |-> "abstract", palette |-> generate_abstract_placeholder(prompt_lower),
              central_stressor |-> "", factors |-> <<>>,
              central_lines |-> <<>>, factor_lines |-> <<>>]

generate_placeholder_image(prompt) ==
    LET prompt_lower == Lower(prompt)
        is_story == \/ Contains(prompt_lower, "mind-map")
                    \/ Contains(prompt_lower, "diagram")
                    \/ Contains(prompt_lower, "central situation")
    IN  IF is_story THEN generate_mindmap_placeholder(prompt)
        ELSE [layout |-> "abstract", palette |-> generate_abstract_placeholder(prompt_lower),
              central_stressor |-> "", factors |-> <<>>,
              central_lines |-> <<>>, factor_lines |-> <<>>]

(***************************************************************************)
(* State.                                                                  *)
(***************************************************************************)
NoRequest ==
    [kind |-> "none", story_text |-> <<>>, feeling_category |-> "",
     selected_emotions |-> <<>>]
NoAnalysis == Result(JAbsent, <<>>, JAbsent)
NoStoryAnalysis == [central_stressor |-> "", factors |-> <<>>, language |-> ""]
NoOutcome == [kind |-> "none", image |-> "", error |-> ""]
NoResponse ==
    [status |-> 0, success |-> FALSE, code |-> "", image |-> "",
     has_analysis |-> FALSE, story_analysis |-> NoStoryAnalysis]

\* a worker thread running _generate_image_sync:
\*   st      "started", "calling" (inside imagen.generate_images), "finished"
\*   service what the external service answered: "", "image", "no_image" or
\*           the text of the exception it raised
\*   image   the image returned ("imagen", "placeholder"), "" if none
\*   error   the text of the exception that left the thread, "" if none
NewThread == [st |-> "started", service |-> "", image |-> "", error |-> ""]

\* the SDK: genai has ImageGenerationModel ("present"), lacks it ("absent"), or
\* has one whose constructor raises ("broken")
SdkStates == {"present", "absent", "broken"}

\* no call to the external text model was made
NoTextCall == [raises |-> FALSE, text |-> <<[t |-> "nocall", v |-> EmptyObject]>>]

StoryRequests ==
    {[kind |-> "story", story_text |-> t, feeling_category |-> c, selected_emotions |-> e] :
        t \in Narratives,
        c \in {"bad", "great"},
        e \in {<<>>, <<"happy">>, <<"down">>, <<"fuming", "chill">>,
                <<"down", "blah", "fuming", "chill", "cozy">>}}

FeelingRequests ==
    {[kind |-> "feeling", story_text |-> <<>>, feeling_category |-> c, selected_emotions |-> e] :
        c \in {"good", "not_sure", "great"},
        e \in {<<>>, <<"down", "sad">>, <<"super_happy">>}}

\* the Prompt Builder has not been called
NoArgs == [feeling_category |-> "", selected_emotions |-> <<>>]

Init ==
    /\ pc = "idle"
    /\ request = NoRequest
    /\ received = NoRequest
    /\ text_model = NoTextCall
    /\ analysis = NoAnalysis
    /\ sdk \in SdkStates
    /\ imagen_model = "None"
    /\ attempt = 0
    /\ last_exception = NoException
    /\ threads = <<>>
    /\ outcome = NoOutcome
    /\ response = NoResponse
    /\ calls = 0
    /\ sleeps = <<>>
    /\ log = <<>>
    /\ hash_seed = 0
    /\ builder_args = NoArgs
    /\ returned = {}
    /\ ncalls = 0
    /\ caught = NothingCaught

builderVars == <<hash_seed, builder_args, returned, ncalls, caught>>
pipelineVars ==
    <<pc, received, request, text_model, analysis, sdk, imagen_model, attempt,
      last_exception, threads, outcome, response, calls, sleeps, log>>
clientVars == <<attempt, last_exception, threads, outcome, calls, sleeps, log, imagen_model>>

(***************************************************************************)
(* Arrival of a request: pydantic validates the body before the handler    *)
(* runs; a failing validator makes FastAPI answer 422 without calling it.  *)
(***************************************************************************)
Rejected ==
    [NoResponse EXCEPT !.status = 422, !.code = "REQUEST_VALIDATION"]

ReceiveStory(requests) ==
    /\ pc = "idle"
    /\ \E raw \in requests :
          LET text == validate_story_text(raw.story_text)
          IN  /\ received' = raw
              /\ IF /\ text.ok
                    /\ validate_feeling_category(raw.feeling_category)
                    /\ validate_selected_emotions(raw.selected_emotions)
                 THEN /\ request' = [raw EXCEPT !.story_text = text.value]
                      /\ pc' = "analyze"
                      /\ UNCHANGED response
                 ELSE /\ response' = Rejected
                      /\ pc' = "done"
                      /\ UNCHANGED request
    /\ UNCHANGED <<text_model, analysis, sdk, builderVars, clientVars>>

ReceiveFeeling ==
    /\ pc = "idle"
    /\ \E raw \in FeelingRequests :
          /\ received' = raw
          /\ IF /\ validate_feeling_category(raw.feeling_category)
                /\ validate_selected_emotions(raw.selected_emotions)
             THEN /\ request' = raw
                  /\ pc' = "generate"
                  /\ UNCHANGED response
             ELSE /\ response' = Rejected
                  /\ pc' = "done"
                  /\ UNCHANGED request
    /\ UNCHANGED <<text_model, analysis, sdk, builderVars, clientVars>>

(***************************************************************************)
(* generate_story_visualization, step 1 and 2.  analyze_story awaits       *)
(* nothing: it builds its prompt and calls self.model.generate_content     *)
(* from the coroutine itself, so while the text model has not answered the *)
(* coroutine, and with it the event loop's thread, is inside that call.    *)
(* When the call has returned or raised, analyze_story runs to its end and *)
(* build_story_prompt formats the result into the prompt (f-strings: no    *)
(* value of the analysis makes it raise).                                  *)
(***************************************************************************)
CallTextModel ==
    /\ pc = "analyze"
    /\ pc' = "analyzing"
    /\ UNCHANGED <<request, received, text_model, analysis, response, sdk,
                   builderVars, clientVars>>

AnalyzeStory(behaviours) ==
    /\ pc = "analyzing"
    /\ \E behaviour \in behaviours :
          /\ text_model' = behaviour
          /\ analysis' = analyze_story(request.story_text, request.selected_emotions, behaviour)
    /\ pc' = "generate"
    /\ UNCHANGED <<request, received, response, sdk, builderVars, clientVars>>

(***************************************************************************)
(* GeminiClient.generate_visualization_image: the retry loop.              *)
(***************************************************************************)
Returned(image) == [kind |-> "returned", image |-> image, error |-> ""]
Raised(message) == [kind |-> "raised", image |-> "", error |-> message]

\* mutant: the function falls off the end of the loop and returns nothing
LoopExit_ReturnsNothing(last) == Returned("")

\* raise last_exception or GeminiAPIError("Image generation failed after retries")
LoopExit(last) == Raised(IF last # NoException THEN last ELSE AfterRetriesMessage)

\* The loop takes its next value: iteration `next` starts (logger.info, then
\* asyncio.to_thread hands _generate_image_sync to a worker thread and the
\* coroutine waits in asyncio.wait_for), or the range is used up and the
\* statement after the loop raises.
EnterIteration(next, last) ==
    IF next < RangeStop
    THEN /\ attempt' = next
         /\ threads' = Append(threads, NewThread)
         /\ pc' = "await"
         /\ UNCHANGED outcome
    ELSE /\ outcome' = LoopExit(last)
         /\ pc' = "respond"
         /\ UNCHANGED <<attempt, threads>>

\* The end of a failed iteration: the backoff sleep when another attempt is
\* allowed, else straight on to the loop's next value.
AfterFailure(last) ==
    IF SleepsAfter(attempt)
    THEN /\ sleeps' = Append(sleeps, Backoff(attempt))
         /\ pc' = "sleep"
         /\ UNCHANGED <<attempt, threads, outcome>>
    ELSE /\ EnterIteration(attempt + 1, last)
         /\ UNCHANGED sleeps

\* generate_visualization_image is called: the first iteration
StartGeneration ==
    /\ pc = "generate"
    /\ EnterIteration(0, last_exception)
    /\ UNCHANGED <<received, request, text_model, analysis, sdk, builderVars, imagen_model,
                   last_exception, response, calls, sleeps, log>>

\* the worker thread of this attempt finished inside the timeout:
\* to_thread's result, or the exception that left _generate_image_sync
AttemptFinished ==
    /\ pc = "await"
    /\ threads[attempt + 1].st = "finished"
    /\ LET t == threads[attempt + 1]
       IN  IF t.error = ""
           THEN /\ outcome' = Returned(t.image)
                /\ pc' = "respond"
                /\ log' = Append(log, "ok")
                /\ UNCHANGED <<attempt, last_exception, threads, sleeps>>
           ELSE /\ last_exception' = FailedMessage(t.error)
                /\ log' = Append(log, "error")
                /\ IF IsSafetyError(t.error)
                   THEN /\ outcome' = Raised(FilteredMessage)
                        /\ pc' = "respond"
                        /\ UNCHANGED <<attempt, threads, sleeps>>
                   ELSE IF IsInvalidKeyError(t.error)
                   THEN /\ outcome' = Raised(InvalidKeyMessage)
                        /\ pc' = "respond"
                        /\ UNCHANGED <<attempt, threads, sleeps>>
                   ELSE AfterFailure(FailedMessage(t.error))
    /\ UNCHANGED <<received, request, text_model, analysis, sdk, builderVars, imagen_model,
                   response, calls>>

\* asyncio.wait_for gives up after self.timeout seconds: asyncio.TimeoutError
\* in the coroutine.  The worker thread is not stopped; it is still inside
\* the external call.  (The timeout is taken to expire only on a call to the
\* external service: the local steps of a worker take far less than it.)
AttemptTimeout ==
    /\ pc = "await"
    /\ threads[attempt + 1].st = "calling"
    /\ last_exception' = TimedOutMessage
    /\ log' = Append(log, "timeout")
    /\ AfterFailure(TimedOutMessage)
    /\ UNCHANGED <<received, request, text_model, analysis, sdk, builderVars, imagen_model,
                   response, calls>>

\* asyncio.sleep returns: the loop goes on
SleepDone ==
    /\ pc = "sleep"
    /\ EnterIteration(attempt + 1, last_exception)
    /\ UNCHANGED <<received, request, text_model, analysis, sdk, builderVars, imagen_model,
                   last_exception, response, calls, sleeps, log>>

(***************************************************************************)
(* GeminiClient._generate_image_sync in a worker thread.                   *)
(***************************************************************************)
\* mutant: a model object is made without asking whether the SDK has the class
get_imagen_model_Unchecked(current, s) == "imagen"

\* _get_imagen_model: the value of self.imagen_model after the call
get_imagen_model(current, s) ==
    IF current = "None"
    THEN IF s = "present" THEN "imagen" ELSE "None"
    ELSE current

\* texts of exceptions that may leave the worker thread: one for each class
\* the loop's `except Exception` tells apart, and one (a Pillow message) that
\* has none of the substrings the loop looks for
RenderErrTexts == ErrTexts \cup {"Unknown resampling filter (7)"}

\* _generate_placeholder_image: the image, or an exception with text e
RenderOutcomes ==
    {[image |-> "placeholder", error |-> ""]}
      \cup {[image |-> "", error |-> e] : e \in RenderErrTexts}

\* The thread's function ends and hands its result to the future the coroutine
\* awaits.  After a timeout asyncio.wait_for has cancelled that future: the
\* thread runs on, and what it returns or raises is dropped.
Awaited(k) == pc = "await" /\ k = attempt + 1

Finish(k, service, r) ==
    threads' = [threads EXCEPT ![k] =
                   IF Awaited(k)
                   THEN [st |-> "finished", service |-> service,
                         image |-> r.image, error |-> r.error]
                   ELSE [st |-> "finished", service |-> "", image |-> "", error |-> ""]]

\* the thread starts: the lazy initialisation, then the placeholder when there
\* is no Imagen model, else the call to the external service is issued
ThreadStart(k, renders) ==
    /\ threads[k].st = "started"
    /\ imagen_model' = get_imagen_model(imagen_model, sdk)
    /\ IF imagen_model' = "None"
       THEN /\ \E r \in renders : Finish(k, "", r)
            /\ UNCHANGED calls
       ELSE /\ threads' = [threads EXCEPT ![k].st = "calling"]
            /\ calls' = calls + 1
    /\ UNCHANGED <<pc, received, request, text_model, analysis, sdk, builderVars, attempt,
                   last_exception, outcome, response, sleeps, log>>

\* what imagen.generate_images may do: return an image, return a response
\* without images, or raise
ServiceAnswers == {"image", "no_image"} \cup ErrTexts

\* the external call ends.  With an image: _process_image and return.  With
\* anything else the `except Exception` of _generate_image_sync takes over
\* and the placeholder is rendered instead.
ServiceAnswer(k, answers, renders) ==
    /\ threads[k].st = "calling"
    /\ \E a \in answers :
          IF a = "image"
          THEN Finish(k, a, [image |-> "imagen", error |-> ""])
          ELSE \E r \in renders : Finish(k, a, r)
    /\ UNCHANGED <<pc, received, request, text_model, analysis, sdk, builderVars, imagen_model,
                   attempt, last_exception, outcome, response, calls, sleeps, log>>

(***************************************************************************)
(* The handlers' last step: the response model, or handle_generation_error *)
(* on whatever was raised inside the try.                                  *)
(***************************************************************************)
ErrorResponse(e) ==
    LET http == handle_generation_error(e)
    IN  [NoResponse EXCEPT !.status = http.status, !.code = http.code]

Respond ==
    /\ pc = "respond"
    /\ response' =
          IF outcome.kind = "raised" THEN ErrorResponse(GeminiAPIError(outcome.error))
          ELSE IF request.kind = "feeling"
          THEN [NoResponse EXCEPT !.status = 200, !.success = TRUE, !.image = outcome.image]
          ELSE LET args == StoryAnalysisArgs(analysis)
               IN  IF StoryAnalysisValid(args)
                   THEN [NoResponse EXCEPT !.status = 200, !.success = TRUE,
                                           !.image = outcome.image,
                                           !.has_analysis = TRUE,
                                           !.story_analysis = StoryAnalysis(args)]
                   ELSE ErrorResponse(ModelValidationError("StoryAnalysis"))
    /\ pc' = "done"
    /\ UNCHANGED <<received, request, text_model, analysis, sdk, builderVars, clientVars>>

(***************************************************************************)
(* GET /emotions, a second request served by the same event loop.  Its     *)
(* handler is one step of a coroutine; the loop can run it whenever its    *)
(* thread is not inside a synchronous call of another coroutine.           *)
(***************************************************************************)
\* mutant: the hard-coded lists lag behind the registry by one emotion
list_emotions_Stale ==
    LET positive == <<"super_happy", "pumped", "cozy", "chill", "content">>
        negative == <<"fuming", "freaked_out", "mad_as_hell", "blah", "down">>
    IN  [positive_emotions |-> positive,
         negative_emotions |-> negative,
         all_emotions |-> positive \o negative]

list_emotions ==
    LET positive == <<"super_happy", "pumped", "cozy", "chill", "content">>
        negative == <<"fuming", "freaked_out", "mad_as_hell", "blah", "down", "bored_stiff">>
    IN  [positive_emotions |-> positive,
         negative_emotions |-> negative,
         all_emotions |-> positive \o negative]

EventLoopBlocked == pc = "analyzing"

ListEmotions ==
    /\ ~EventLoopBlocked
    /\ returned' = returned \cup {[method |-> "list_emotions", data |-> list_emotions]}
    /\ UNCHANGED <<hash_seed, builder_args, ncalls, caught, pipelineVars>>

(***************************************************************************)
(* Spec: the Generation Client under every answer of the external image    *)
(* service and of the renderer, for a few requests.                        *)
(***************************************************************************)
ClientStoryRequests ==
    {[kind |-> "story", story_text |-> t, feeling_category |-> "bad",
      selected_emotions |-> <<"down">>] :
        t \in {Narrative(0, 40, FALSE, 0), Narrative(0, MinStoryLen, FALSE, 0)}}

ClientTextBehaviours ==
    {[raises |-> TRUE, text |-> <<>>],
     [raises |-> FALSE, text |-> <<Obj(BaseObject)>>],
     [raises |-> FALSE, text |-> <<Obj(MkObject(JNull, JList(<<>>), JStr("en")))>>]}

Next ==
    \/ ReceiveStory(ClientStoryRequests)
    \/ ReceiveFeeling
    \/ CallTextModel
    \/ AnalyzeStory(ClientTextBehaviours)
    \/ StartGeneration
    \/ AttemptFinished
    \/ AttemptTimeout
    \/ SleepDone
    \/ \E k \in 1..Len(threads) : ThreadStart(k, RenderOutcomes)
    \/ \E k \in 1..Len(threads) : ServiceAnswer(k, ServiceAnswers, RenderOutcomes)
    \/ Respond
    \/ ListEmotions

Spec == Init /\ [][Next]_vars

(***************************************************************************)
(* SpecLive: the feeling request with the scheduling the runtime gives.    *)
(* The event loop runs a coroutine that can go on; a worker thread handed  *)
(* to the executor gets to run; the timers of asyncio.wait_for and of      *)
(* asyncio.sleep fire.  Nothing is assumed of the external service: it may *)
(* never answer.  One error text of each class the loop tells apart.       *)
(***************************************************************************)
LiveServiceAnswers == {"image", "503 Service Unavailable"}
LiveRenderOutcomes ==
    {[image |-> "placeholder", error |-> ""],
     [image |-> "", error |-> "503 Service Unavailable"],
     [image |-> "", error |-> "The prompt was blocked by safety filters"]}

NextLive ==
    \/ ReceiveFeeling
    \/ StartGeneration
    \/ AttemptFinished
    \/ AttemptTimeout
    \/ SleepDone
    \/ \E k \in 1..Len(threads) : ThreadStart(k, LiveRenderOutcomes)
    \/ \E k \in 1..Len(threads) : ServiceAnswer(k, LiveServiceAnswers, LiveRenderOutcomes)
    \/ Respond

Fairness ==
    /\ WF_vars(StartGeneration)
    /\ WF_vars(AttemptFinished)
    /\ WF_vars(AttemptTimeout)
    /\ WF_vars(SleepDone)
    /\ WF_vars(\E k \in 1..Len(threads) : ThreadStart(k, LiveRenderOutcomes))

SpecLive == Init /\ [][NextLive]_vars /\ Fairness

(***************************************************************************)
(* SpecStory: the story request under every narrative and every behaviour  *)
(* of the external text model, with an image service that answers with an  *)
(* image, an error or not at all, and a renderer that renders.             *)
(***************************************************************************)
StoryServiceAnswers == {"image", "503 Service Unavailable"}
StoryRenderOutcomes == {[image |-> "placeholder", error |-> ""]}

NextStory ==
    \/ ReceiveStory(StoryRequests)
    \/ CallTextModel
    \/ AnalyzeStory(TextModelBehaviours)
    \/ StartGeneration
    \/ AttemptFinished
    \/ AttemptTimeout
    \/ SleepDone
    \/ \E k \in 1..Len(threads) : ThreadStart(k, StoryRenderOutcomes)
    \/ \E k \in 1..Len(threads) : ServiceAnswer(k, StoryServiceAnswers, StoryRenderOutcomes)
    \/ Respond

SpecStory == Init /\ [][NextStory]_vars

(***************************************************************************)
(* SpecPrompt: the Prompt Builder singleton, called again and again with   *)
(* one pair of validated arguments.                                        *)
(***************************************************************************)
PromptEmotions == {"pumped", "content", "fuming"}

RECURSIVE SeqsUpTo(_, _)
SeqsUpTo(S, n) ==
    IF n = 0 THEN {<<>>}
    ELSE LET shorter == SeqsUpTo(S, n - 1)
         IN  shorter \cup {Append(q, x) : q \in shorter, x \in S}

\* validated selected_emotions: non-empty, every identifier valid
EmotionSeqs ==
    (SeqsUpTo(PromptEmotions, MaxEmotions) \ {<<>>})
      \cup {<<e>> : e \in VALID_EMOTIONS}
      \cup {<<"super_happy", "pumped", "cozy", "chill", "content">>,
            <<"fuming", "freaked_out", "mad_as_hell", "blah", "down", "bored_stiff">>,
            <<"down", "blah", "chill">>,
            <<"fuming", "fuming", "content", "content">>}

PromptArgs ==
    {[feeling_category |-> c, selected_emotions |-> e] :
        c \in VALID_CATEGORIES, e \in EmotionSeqs}

InitPrompt ==
    /\ pc = "idle"
    /\ request = NoRequest
    /\ received = NoRequest
    /\ text_model = NoTextCall
    /\ analysis = NoAnalysis
    /\ sdk = "present"
    /\ imagen_model = "None"
    /\ attempt = 0
    /\ last_exception = NoException
    /\ threads = <<>>
    /\ outcome = NoOutcome
    /\ response = NoResponse
    /\ calls = 0
    /\ sleeps = <<>>
    /\ log = <<>>
    /\ hash_seed \in 0..MaxSeed
    /\ builder_args \in PromptArgs
    /\ returned = {}
    /\ ncalls = 0
    /\ caught = NothingCaught

\* prompt_builder.get_dominant_colors(request.selected_emotions)
CallDominantColors ==
    /\ ncalls < MaxBuilderCalls
    /\ ncalls' = ncalls + 1
    /\ returned' = returned \cup
          {[method |-> "get_dominant_colors",
            colors |-> get_dominant_colors(builder_args.selected_emotions), text |-> ""]}
    /\ UNCHANGED <<hash_seed, builder_args, caught, pipelineVars>>

\* prompt_builder.build_feeling_prompt(feeling_category, selected_emotions)
CallBuildFeelingPrompt ==
    /\ ncalls < MaxBuilderCalls
    /\ ncalls' = ncalls + 1
    /\ returned' = returned \cup
          {[method |-> "build_feeling_prompt", colors |-> <<>>,
            text |-> build_feeling_prompt(hash_seed, builder_args.feeling_category,
                                          builder_args.selected_emotions)]}
    /\ UNCHANGED <<hash_seed, builder_args, caught, pipelineVars>>

\* the server process is started again: the interpreter draws a new hash seed
Restart ==
    /\ \E seed \in 0..MaxSeed :
          /\ seed # hash_seed
          /\ hash_seed' = seed
    /\ UNCHANGED <<builder_args, returned, ncalls, caught, pipelineVars>>

NextPrompt ==
    \/ CallDominantColors
    \/ CallBuildFeelingPrompt
    \/ Restart
    \/ ListEmotions

SpecPrompt == InitPrompt /\ [][NextPrompt]_vars

(***************************************************************************)
(* SpecBoundary: handle_generation_error on the exceptions a handler's     *)
(* `except Exception as e` can catch: a GeminiAPIError of the Generation   *)
(* Client (its text embeds the text of the external service's error), a    *)
(* ValueError (pydantic's ValidationError is one), or any other exception. *)
(***************************************************************************)
ErrorWords ==
    {"timeout", "Safety", "filter", "API key", "timed out", "blocked",
     "at least 50 characters", "image_data"}

CaughtTexts == {Join(" ", q) : q \in SeqsUpTo(ErrorWords, MaxMarkers)}

CaughtExceptions ==
    {[type |-> t, text |-> x] : t \in {"GeminiAPIError", "ValueError", "KeyError"},
                                x \in CaughtTexts}

InitBoundary ==
    /\ pc = "idle"
    /\ request = NoRequest
    /\ received = NoRequest
    /\ text_model = NoTextCall
    /\ analysis = NoAnalysis
    /\ sdk = "present"
    /\ imagen_model = "None"
    /\ attempt = 0
    /\ last_exception = NoException
    /\ threads = <<>>
    /\ outcome = NoOutcome
    /\ response = NoResponse
    /\ calls = 0
    /\ sleeps = <<>>
    /\ log = <<>>
    /\ hash_seed = 0
    /\ builder_args = NoArgs
    /\ returned = {}
    /\ ncalls = 0
    /\ caught \in CaughtExceptions

\* except Exception as e: handle_generation_error(e, ...)
HandleGenerationError ==
    /\ returned = {}
    /\ returned' = {[method |-> "handle_generation_error",
                     http |-> handle_generation_error(caught)]}
    /\ UNCHANGED <<hash_seed, builder_args, ncalls, caught, pipelineVars>>

NextBoundary == HandleGenerationError

SpecBoundary == InitBoundary /\ [][NextBoundary]_vars

(***************************************************************************)
(* SpecRender: the Placeholder Renderer on the prompts of the two          *)
(* handlers, when no image model is available (_generate_image_sync        *)
(* returns _generate_placeholder_image(prompt)).  builder_args are the     *)
(* arguments of build_feeling_prompt, or those of build_story_prompt: the  *)
(* validated request and what analyze_story returned for it.  The text     *)
(* model's answer is free text, so a label it returns may hold any         *)
(* characters, the renderer's own patterns included.                       *)
(***************************************************************************)
StoryTexts ==
    {"I have been feeling overwhelmed at work for several weeks now.",
     Join(" ", [i \in 1..6 |->
                  "My manager keeps moving the deadline and nobody tells me why."])}

LongWord == "Supercalifragilisticexpialidocious"

StoryAnalyses ==
    {BasicFallback,
     parse_response(<<Obj(BaseObject)>>).result,
     Result(JStr("Public Performance Anxiety"),
            <<Factor(JStr("Fear of Judgment"), JStr("Insight 1")),
              Factor(JStr("Self-Doubt"), JStr("Insight 2")),
              Factor(JStr("Time Pressure"), JStr("Insight 3")),
              Factor(JStr("Perfectionism"), JStr("Insight 4")),
              Factor(JStr("Isolation"), JStr("Insight 5"))>>, JStr("en")),
     Result(JNull, <<>>, JStr("en")),
     Result(JStr("Deadlines, label " \o Quote \o "Constant Pressure From " \o LongWord
                   \o Quote \o " below it"),
            <<Factor(JStr("Icon + label: " \o Quote \o "Overwhelming Professional Expectations"
                            \o Quote), JStr("Insight 1")),
              Factor(JStr("Icon + label: " \o Quote \o LongWord \o "ness" \o Quote),
                     JStr("Insight 2")),
              Factor(JStr("Icon + label: " \o Quote \o "Fear of letting people down"
                            \o Quote), JStr("Insight 3"))>>, JStr("en"))}

StoryPromptArgs ==
    {[feeling_category |-> "bad", selected_emotions |-> e, story_text |-> t,
      central_stressor |-> a.central_stressor, factors |-> a.factors] :
        e \in {<<"down">>, <<"fuming", "chill">>}, t \in StoryTexts, a \in StoryAnalyses}

IsStoryArgs(a) == "story_text" \in DOMAIN a

InitRender ==
    /\ pc = "idle"
    /\ request = NoRequest
    /\ received = NoRequest
    /\ text_model = NoTextCall
    /\ analysis = NoAnalysis
    /\ sdk = "absent"
    /\ imagen_model = "None"
    /\ attempt = 0
    /\ last_exception = NoException
    /\ threads = <<>>
    /\ outcome = NoOutcome
    /\ response = NoResponse
    /\ calls = 0
    /\ sleeps = <<>>
    /\ log = <<>>
    /\ hash_seed \in 0..MaxSeed
    /\ builder_args \in PromptArgs \cup StoryPromptArgs
    /\ returned = {}
    /\ ncalls = 0
    /\ caught = NothingCaught

\* generate_feeling_visualization with no image model: the prompt is built
\* and _generate_placeholder_image draws it
RenderFeeling ==
    /\ ~IsStoryArgs(builder_args)
    /\ returned = {}
    /\ returned' =
          {[method |-> "generate_placeholder_image", kind |-> "feeling",
            drawn |-> generate_placeholder_image(
                          build_feeling_prompt(hash_seed, builder_args.feeling_category,
                                               builder_args.selected_emotions))]}
    /\ UNCHANGED <<hash_seed, builder_args, ncalls, caught, pipelineVars>>

\* generate_story_visualization with no image model
RenderStory ==
    /\ IsStoryArgs(builder_args)
    /\ returned = {}
    /\ returned' =
          {[method |-> "generate_placeholder_image", kind |-> "story",
            drawn |-> generate_placeholder_image(
                          build_story_prompt(hash_seed, builder_args.story_text,
                                             builder_args.feeling_category,
                                             builder_args.selected_emotions,
                                             builder_args.central_stressor,
                                             builder_args.factors))]}
    /\ UNCHANGED <<hash_seed, builder_args, ncalls, caught, pipelineVars>>

NextRender ==
    \/ RenderFeeling
    \/ RenderStory

SpecRender == InitRender /\ [][NextRender]_vars

(***************************************************************************)
(* Properties.                                                             *)
(***************************************************************************)
InFlight == {k \in 1..Len(threads) : threads[k].st = "calling"}
GenerationEnded == outcome.kind # "none"
AllTimedOut == log # <<>> /\ \A i \in 1..Len(log) : log[i] = "timeout"

\* C1: one call of generate_visualization_image starts at most max_retries + 1
\* attempts and issues at most max_retries + 1 calls to the external image
\* service, whatever the service and the renderer do.
C1_AtMostMaxRetriesPlusOneCalls ==
    /\ Len(threads) <= GEMINI_MAX_RETRIES + 1
    /\ calls <= GEMINI_MAX_RETRIES + 1
    /\ calls <= Len(threads)

\* C1 witness: a finished request all of whose max_retries + 1 attempts called
\* the external service.
C1_Witness ==
    /\ pc = "done"
    /\ calls = GEMINI_MAX_RETRIES + 1
    /\ Len(log) = GEMINI_MAX_RETRIES + 1

\* C2 (as claimed): when the external service's call of the attempt the loop
\* waits for fails with a terminal-classified error text (and nothing else
\* fails in that attempt), generate_image ends on that attempt by raising the
\* terminal error (content filtered, resp. invalid API key configuration).
C2_TerminalServiceErrorIsRaised ==
    (/\ GenerationEnded
     /\ threads[attempt + 1].service \in ErrTexts
     /\ IsTerminal(threads[attempt + 1].service)
     /\ threads[attempt + 1].error = "")
    => /\ outcome.kind = "raised"
       /\ outcome.error = IF IsSafetyError(threads[attempt + 1].service)
                          THEN FilteredMessage ELSE InvalidKeyMessage

C4_FactorCountWithin1And5 ==
    text_model # NoTextCall =>
        /\ Len(analysis.factors) >= 1
        /\ Len(analysis.factors) <= MaxFactors

\* C5: when the external text model raises, analyze_story returns the
\* emotion-keyed fallback of the narrative and the emotions, with at least one
\* factor, and the story request whose image generation succeeds is answered
\* with a successful story result.
C5_TextModelFailureDegradesToFallback ==
    text_model.raises =>
        /\ analysis = generate_fallback_analysis(request.story_text,
                                                 request.selected_emotions)
        /\ Len(analysis.factors) >= 1
        /\ \A i \in 1..Len(analysis.factors) :
              analysis.factors[i].factor.k = "str" /\ analysis.factors[i].factor.s # ""
        /\ (pc = "done" /\ outcome.kind = "returned") =>
              /\ response.success
              /\ response.status = 200
              /\ response.has_analysis

\* C5 witness: a successful story result after the text model raised.
C5_Witness ==
    /\ text_model.raises
    /\ pc = "done"
    /\ response.success
    /\ response.has_analysis
    /\ Len(response.story_analysis.factors) >= 1

\* C6 (as claimed): for every text the external text model returns, a story
\* request whose image generation succeeds is answered with a successful story
\* result.
C6_AnalysisNeverFailsTheRequest ==
    (pc = "done" /\ request.kind = "story" /\ outcome.kind = "returned")
        => response.success

\* C7 (as claimed): when every attempt timed out, the request fails after
\* max_retries + 1 attempts and the boundary answers GENERATION_TIMEOUT.
C7_AllTimeoutsSurfaceAsGenerationTimeout ==
    (pc = "done" /\ outcome.kind = "raised" /\ AllTimedOut) =>
        /\ Len(log) = GEMINI_MAX_RETRIES + 1
        /\ response.code = "GENERATION_TIMEOUT"

\* C8 (as claimed): at most one call to the external image service is in
\* flight at any time.
C8_AtMostOneCallInFlight == Cardinality(InFlight) <= 1

\* C9: a story request whose narrative has, after trimming, fewer than 50 or
\* more than 5000 characters is rejected before the text model or the image
\* service is called; a narrative of trimmed length 50 or 5000 is not what a
\* request is rejected for.
C9_NarrativeLengthValidatedBeforeAnyCall ==
    received.kind = "story" =>
        LET n == TextLen(Strip(received.story_text))
            others == /\ received.feeling_category \in VALID_CATEGORIES
                      /\ validate_selected_emotions(received.selected_emotions)
        IN  /\ (n < 50 \/ n > 5000) =>
                  /\ pc = "done"
                  /\ response = Rejected
                  /\ request = NoRequest
                  /\ text_model = NoTextCall
                  /\ calls = 0
                  /\ threads = <<>>
            /\ (n \in {50, 5000} /\ others) =>
                  /\ response # Rejected
                  /\ request.kind = "story"
                  /\ TextLen(request.story_text) = n

\* C9 witness: a narrative of 51 characters, 49 after trimming, was rejected.
C9_Witness ==
    /\ received.kind = "story"
    /\ TextLen(received.story_text) = 51
    /\ TextLen(Strip(received.story_text)) = 49
    /\ response = Rejected

\* C10 (as claimed): the story_analysis of a successful story result is the
\* analyzer's result: the same central_stressor and language and, factor by
\* factor, the same label and the same insight text.
C10_StoryAnalysisIsVerbatim ==
    (response.success /\ response.has_analysis) =>
        /\ response.story_analysis.central_stressor = analysis.central_stressor.s
        /\ response.story_analysis.language = analysis.language.s
        /\ Len(response.story_analysis.factors) = Len(analysis.factors)
        /\ \A i \in 1..Len(analysis.factors) :
              /\ response.story_analysis.factors[i].factor = analysis.factors[i].factor.s
              /\ response.story_analysis.factors[i].description = analysis.factors[i].insight.s

\* a syntactically valid hex color: "#" and six hexadecimal digits
HexDigits == "0123456789ABCDEFabcdef"
IsHexColor(c) ==
    /\ Len(c) = 7
    /\ SubSeq(c, 1, 1) = "#"
    /\ \A i \in 2..7 : \E j \in 1..Len(HexDigits) : SubSeq(c, i, i) = SubSeq(HexDigits, j, j)

ColorsReturned == {r \in returned : r.method = "get_dominant_colors"}

\* C11: for a non-empty sequence of valid emotion identifiers every call of
\* get_dominant_colors returns 3 or 4 syntactically valid hex colors, and all
\* calls on that sequence, however many were made, return one and the same list.
C11_DominantColorsThreeOrFourAndPure ==
    /\ \A r \in ColorsReturned :
          /\ Len(r.colors) \in {3, 4}
          /\ \A i \in 1..Len(r.colors) : IsHexColor(r.colors[i])
    /\ Cardinality(ColorsReturned) <= 1

\* C11 witness: get_dominant_colors was called more than once on two emotions,
\* whose two colors were filled up with fallback colors.
C11_Witness ==
    /\ ncalls >= 2
    /\ Len(builder_args.selected_emotions) = 2
    /\ \E r \in ColorsReturned :
          r.colors = <<"#FFB5A0", "#E8A0A0", "#FFD700", "#FF6B6B">>

\* analyze_story left through its except branch: the model call raised, or
\* _parse_response raised
FallbackTaken ==
    /\ text_model # NoTextCall
    /\ text_model.raises \/ parse_response(text_model.text).raised

\* C12: what the fallback path returns for a validated request: language "zh"
\* when the narrative has a character of U+4E00..U+9FFF and "en" otherwise,
\* between 1 and 4 factors, and no factor with an empty label.
C12_FallbackLanguageAndFactorCount ==
    FallbackTaken =>
        /\ analysis.language =
              JStr(IF HasChinese(request.story_text) THEN "zh" ELSE "en")
        /\ Len(analysis.factors) \in 1..4
        /\ \A i \in 1..Len(analysis.factors) :
              /\ analysis.factors[i].factor.k = "str"
              /\ Len(analysis.factors[i].factor.s) > 0

\* C12 witness: the fallback of a Chinese narrative with five selected
\* emotions: language "zh" and four factors.
C12_Witness ==
    /\ FallbackTaken
    /\ HasChinese(request.story_text)
    /\ Len(request.selected_emotions) = 5
    /\ analysis.language = JStr("zh")
    /\ Len(analysis.factors) = 4

\* the text model's answer has no brace-delimited block that decodes as JSON
NoDecodableBlock ==
    /\ text_model # NoTextCall
    /\ ~text_model.raises
    /\ LET span == BraceSpan(text_model.text)
       IN  span = <<>> \/ ~JsonDecodes(span)

\* C13 (as claimed): whenever the model call failed, or its output has no
\* decodable brace-delimited block, or handling the decoded result raised,
\* analyze_story returned exactly the emotion-keyed fallback analysis of the
\* narrative and the selected emotions.
C13_OneFallbackForEveryFailurePoint ==
    (FallbackTaken \/ NoDecodableBlock) =>
        analysis = generate_fallback_analysis(request.story_text,
                                              request.selected_emotions)

PromptsReturned == {r \in returned : r.method = "build_feeling_prompt"}

\* C14 (as claimed): build_feeling_prompt is deterministic: all evaluations on
\* the same (category, emotions) pair, in the same or in different runs of the
\* process, return the identical prompt text; the text contains the style
\* preamble, a non-empty mood clause and a color clause.
C14_FeelingPromptIsDeterministic ==
    /\ Cardinality(PromptsReturned) <= 1
    /\ \A r \in PromptsReturned :
          /\ Contains(r.text, FEELING_BASE_STYLE)
          /\ Contains(r.text, "MOOD TO VISUALIZE:\n")
          /\ ~Contains(r.text, "MOOD TO VISUALIZE:\n\n")
          /\ Contains(r.text, "COLOR PALETTE:\nUse ")

RetryableServiceFailure ==
    /\ threads # <<>>
    /\ threads[attempt + 1].service \in ErrTexts
    /\ ~IsTerminal(threads[attempt + 1].service)
    /\ threads[attempt + 1].error = ""

\* C16 (as claimed): a retryable failure of the external service does not end
\* generate_image on an attempt that may be followed by another one: when the
\* call ends on such an attempt's failure, all max_retries + 1 attempts were
\* made and an error is raised.
C16_RetryableServiceFailureIsRetried ==
    (GenerationEnded /\ RetryableServiceFailure) =>
        /\ attempt = GEMINI_MAX_RETRIES
        /\ outcome.kind = "raised"

\* the three ways generate_visualization_image ends
EndedWithImage ==
    /\ outcome.kind = "returned"
    /\ outcome.image \in {"imagen", "placeholder"}
    /\ log[Len(log)] = "ok"

EndedWithTerminalError ==
    /\ outcome.kind = "raised"
    /\ outcome.error \in {FilteredMessage, InvalidKeyMessage}
    /\ log[Len(log)] = "error"
    /\ Len(log) = attempt + 1
    /\ IsTerminal(threads[attempt + 1].error)

EndedAfterBudget ==
    /\ outcome.kind = "raised"
    /\ outcome.error = last_exception
    /\ outcome.error \notin {FilteredMessage, InvalidKeyMessage, NoException}
    /\ Len(log) = GEMINI_MAX_RETRIES + 1
    /\ \A i \in 1..Len(log) : log[i] \in {"error", "timeout"}

EndedInOneOfThree ==
    GenerationEnded =>
        /\ EndedWithImage \/ EndedWithTerminalError \/ EndedAfterBudget
        /\ ~(EndedWithImage /\ EndedWithTerminalError)
        /\ ~(EndedWithImage /\ EndedAfterBudget)
        /\ ~(EndedWithTerminalError /\ EndedAfterBudget)

\* C17: a call of generate_visualization_image always ends, and it ends in
\* exactly one of three ways: an image is returned, a terminal error is raised
\* on the failing attempt, or the last failure is raised after all
\* max_retries + 1 attempts failed (then no image is returned).
C17_GenerationEndsInOneOfThreeOutcomes ==
    /\ [](EndedInOneOfThree)
    /\ (pc = "generate") ~> GenerationEnded

\* C17 witness: the budget was used up by a timeout and by raised errors, and
\* the call ended with the last of them raised.
C17_Witness ==
    /\ GenerationEnded
    /\ EndedAfterBudget
    /\ \E i \in 1..Len(log) : log[i] = "timeout"
    /\ \E i \in 1..Len(log) : log[i] = "error"

\* an external call the request waits for is in flight
TextCallInFlight == pc = "analyzing"
AwaitedImageCallInFlight == pc = "await" /\ threads[attempt + 1].st = "calling"

\* C18 (as claimed): while the narrative-analysis call or the awaited
\* image-generation call is in flight, the event loop can serve another
\* request, and the per-attempt timeout can end the wait without the
\* external service answering.
C18_ExternalCallsOffLoopWithTimeout ==
    (TextCallInFlight \/ AwaitedImageCallInFlight) =>
        /\ ENABLED ListEmotions
        /\ ENABLED AttemptTimeout

EmotionsReturned == {r \in returned : r.method = "list_emotions"}
Members(seq) == {seq[i] : i \in 1..Len(seq)}

\* C19: what GET /emotions returns: the positive and the negative group have
\* no identifier in common, all_emotions is the positive group followed by
\* the negative one, and its identifiers are exactly those that have a
\* profile in the registry, which are exactly those that request validation
\* accepts.
C19_DiscoveryIsTheRegistry ==
    \A r \in EmotionsReturned :
        /\ Members(r.data.positive_emotions) \cap Members(r.data.negative_emotions) = {}
        /\ r.data.all_emotions = r.data.positive_emotions \o r.data.negative_emotions
        /\ Members(r.data.all_emotions) = DOMAIN EMOTION_PROFILES
        /\ Members(r.data.all_emotions) = VALID_EMOTIONS
        /\ \A e \in Members(r.data.all_emotions) : validate_selected_emotions(<<e>>)
        /\ Cardinality(Members(r.data.all_emotions)) = Len(r.data.all_emotions)

\* C19 witness: GET /emotions was answered with its eleven identifiers.
C19_Witness ==
    \E r \in EmotionsReturned :
        /\ Len(r.data.positive_emotions) = 5
        /\ Len(r.data.negative_emotions) = 6
        /\ Len(r.data.all_emotions) = 11

FailedAttempts == {k \in 1..Len(log) : log[k] \in {"error", "timeout"}}

\* C20: the k-th backoff sleep follows the k-th failed attempt and lasts
\* 1 * 2^(k-1) seconds; there is exactly one sleep for every failed attempt
\* that is followed by another attempt, so at most max_retries of them; when
\* the generation has ended (with an image, with a terminal failure or after
\* the last allowed attempt) the last attempt was not followed by a sleep.
C20_BackoffSleeps ==
    /\ \A k \in 1..Len(sleeps) : sleeps[k] = 2^(k - 1) /\ k \in FailedAttempts
    /\ Len(sleeps) <= max_retries
    /\ pc = "sleep" => (Len(sleeps) = Len(log) /\ Len(log) = attempt + 1)
    /\ pc = "await" => (Len(sleeps) = Len(log) /\ Len(log) = attempt)
    /\ (pc \in {"respond", "done"} /\ log # <<>>) =>
            (Len(sleeps) = Len(log) - 1 /\ Len(log) = attempt + 1)

\* C20 witness: every allowed attempt failed; the loop slept 1 s and 2 s
\* between the three attempts and not after the third.
C20_Witness ==
    /\ pc = "done"
    /\ Len(log) = max_retries + 1
    /\ FailedAttempts = 1..Len(log)
    /\ sleeps = <<1, 2>>

\* the text model's answer was decoded and _parse_response returned normally
\* from its try block
ParsedNormally ==
    /\ text_model # NoTextCall
    /\ ~text_model.raises
    /\ LET span == BraceSpan(text_model.text)
       IN  span # <<>> /\ JsonDecodes(span)
    /\ ~parse_response(text_model.text).raised

\* the "factors" list of the decoded object ([] when the key is absent)
DecodedEntries ==
    LET obj == BraceSpan(text_model.text)[1].v
    IN  IF "factors" \in obj.keys THEN obj.factors.items ELSE <<>>

HasLabelAndInsight(e) == e.isdict /\ "factor" \in e.keys /\ "insight" \in e.keys

\* C21 (as claimed): the factors of a successfully parsed answer are the
\* entries of the decoded list that are key/value records with both a label
\* and an insight, in their original order, at most the first 5 of them;
\* every other entry is dropped.
C21_OnlyCompleteFactorsAreRetained ==
    ParsedNormally =>
        LET complete == SelectSeq(DecodedEntries, HasLabelAndInsight)
        IN  analysis.factors =
                Take([i \in 1..Len(complete) |->
                         Factor(complete[i].factor, complete[i].insight)], MaxFactors)

\* the text model's answer holds a well-formed object as its first
\* brace-delimited block, and a later block that closes a brace as well
ObjectThenMoreBraces ==
    /\ text_model # NoTextCall
    /\ ~text_model.raises
    /\ \E i \in 1..Len(text_model.text) :
          /\ text_model.text[i].t = "obj"
          /\ \A j \in 1..(i - 1) : ~HasBrace(text_model.text[j])
          /\ \E j \in (i + 1)..Len(text_model.text) : HasBrace(text_model.text[j])

FirstObject ==
    text_model.text[CHOOSE i \in 1..Len(text_model.text) : text_model.text[i].t = "obj"
                        /\ \A j \in 1..(i - 1) : ~HasBrace(text_model.text[j])]

\* C22 (as claimed): when the answer is a valid object followed by further
\* text that contains a closing brace, the analysis is the one decoded from
\* the first object alone.
C22_FirstBlockIsDecoded ==
    ObjectThenMoreBraces =>
        analysis = parse_response(<<FirstObject>>).result

\* the first hex color of the profile of each requested emotion, in the
\* request's order
ProfileFirsts ==
    [i \in 1..Len(builder_args.selected_emotions) |->
        EMOTION_PROFILES[builder_args.selected_emotions[i]].hex_colors[1]]

\* the fallback palette without the colors of ProfileFirsts, in palette order
MissingFallbacks ==
    LET Absent(c) == ~InSeq(c, ProfileFirsts)
    IN  SelectSeq(FALLBACK_COLORS, Absent)

\* the profile colors, padded from the fallback palette up to `upto` colors
\* when there are fewer than 3 of them, and cut to 4
PaddedColors(upto) ==
    IF Len(ProfileFirsts) < 3
    THEN Take(ProfileFirsts \o MissingFallbacks, upto)
    ELSE Take(ProfileFirsts, 4)

\* C23 (as claimed): the padding stops as soon as 3 colors are present.
C23_PaddedUntilThreePresent ==
    \A r \in ColorsReturned : r.colors = PaddedColors(3)

\* C23 (amended): get_dominant_colors returns the first hex color of each
\* emotion's profile in emotion order; when fewer than 3 are present it
\* appends the colors of the fallback palette, in palette order and skipping
\* the ones already present, until 4 are present; the result is cut to 4, and
\* its first entry is the first emotion's first profile hex color.
C23_PaddedUntilFourPresent ==
    \A r \in ColorsReturned :
        /\ r.colors = PaddedColors(4)
        /\ r.colors[1] = EMOTION_PROFILES[builder_args.selected_emotions[1]].hex_colors[1]

\* C23 witness: one emotion was requested and its color came back followed by
\* three fallback colors.
C23_Witness ==
    /\ builder_args.selected_emotions = <<"fuming">>
    /\ \E r \in ColorsReturned :
          r.colors = <<"#E8A0A0", "#FFD700", "#FF6B6B", "#4ECDC4">>

\* C24 (as claimed): for every accepted sequence of emotion identifiers the
\* colors returned by get_dominant_colors are pairwise distinct.
C24_DominantColorsAreDistinct ==
    validate_selected_emotions(builder_args.selected_emotions) =>
        \A r \in ColorsReturned :
            \A i, j \in 1..Len(r.colors) : i # j => r.colors[i] # r.colors[j]

\* the static table of the language detected in the request's narrative
DetectedTable ==
    IF HasChinese(request.story_text) THEN emotion_to_factor_zh ELSE emotion_to_factor

Mapped == {r \in returned : r.method = "handle_generation_error"}

ErrorKinds ==
    {"GENERATION_TIMEOUT", "CONTENT_FILTERED", "CONFIGURATION_ERROR",
     "GENERATION_SERVICE_ERROR", "TEXT_TOO_SHORT", "VALIDATION_ERROR", "INTERNAL_ERROR"}

\* the kind of a generation error: the first marker its lower-cased text
\* contains, in the order timeout, safety/filter, credential
GenerationErrorKind(text) ==
    CASE Contains(Lower(text), "timeout") -> "GENERATION_TIMEOUT"
      [] ~Contains(Lower(text), "timeout")
            /\ (Contains(Lower(text), "safety") \/ Contains(Lower(text), "filter")) ->
                "CONTENT_FILTERED"
      [] ~Contains(Lower(text), "timeout") /\ ~Contains(Lower(text), "safety")
            /\ ~Contains(Lower(text), "filter") /\ Contains(Lower(text), "api key") ->
                "CONFIGURATION_ERROR"
      [] OTHER -> "GENERATION_SERVICE_ERROR"

\* C26: the mapper raises an HTTPException for every exception (it never
\* returns normally), with exactly one kind of the closed set: a generation
\* error gets the kind of its first matching marker, a ValueError a validation
\* kind, and every other exception INTERNAL_ERROR with a fixed message that
\* does not contain the exception's text.
C26_EveryFailureMapsToOneKind ==
    \A r \in Mapped :
        /\ r.http.raised = "HTTPException"
        /\ r.http.code \in ErrorKinds
        /\ caught.type = "GeminiAPIError" => r.http.code = GenerationErrorKind(caught.text)
        /\ caught.type = "ValueError" =>
              /\ r.http.code \in {"TEXT_TOO_SHORT", "VALIDATION_ERROR"}
              /\ r.http.status = 400
        /\ caught.type \notin {"GeminiAPIError", "ValueError"} =>
              /\ r.http.code = "INTERNAL_ERROR"
              /\ r.http.status = 500
              /\ r.http.message = "An unexpected error occurred"
              /\ caught.text # "" => ~Contains(r.http.message, caught.text)

\* C26 witness: a generation error whose text has the safety marker before
\* the timeout marker was mapped to the timeout kind.
C26_Witness ==
    /\ caught = GeminiAPIError("Safety timeout")
    /\ \E r \in Mapped : r.http.code = "GENERATION_TIMEOUT" /\ r.http.status = 504

Drawn == {r \in returned : r.method = "generate_placeholder_image"}

\* C29: every prompt of build_story_prompt is drawn with the radial-diagram
\* layout, every prompt of build_feeling_prompt with the abstract layout.
C29_LayoutFollowsPromptKind ==
    \A r \in Drawn :
        /\ r.kind = "story" => r.drawn.layout = "mindmap"
        /\ r.kind = "feeling" => r.drawn.layout = "abstract"

\* C29 witness: a story prompt without a central situation (the analysis had
\* none, the narrative's summary stands in) was drawn as a radial diagram.
C29_Witness ==
    /\ IsStoryArgs(builder_args)
    /\ ~Truthy(builder_args.central_stressor)
    /\ \E r \in Drawn : r.kind = "story" /\ r.drawn.layout = "mindmap"

\* the lines of a label hold the label's words, in order
SameWords(lines, label) == Split(Join(" ", lines)) = Split(label)

\* C27 (as claimed): in the radial diagram no line of the central label is
\* longer than 25 characters and no line of a factor label longer than 18,
\* and the lines of a label hold its words in their order, none lost.
C27_LabelsWrappedToBudget ==
    \A r \in Drawn :
        r.drawn.layout = "mindmap" =>
            /\ \A i \in 1..Len(r.drawn.central_lines) :
                  Len(r.drawn.central_lines[i]) <= CentralMaxChars
            /\ SameWords(r.drawn.central_lines, r.drawn.central_stressor)
            /\ \A k \in 1..Len(r.drawn.factors) :
                  /\ \A i \in 1..Len(r.drawn.factor_lines[k]) :
                        Len(r.drawn.factor_lines[k][i]) <= FactorMaxChars
                  /\ SameWords(r.drawn.factor_lines[k], r.drawn.factors[k])

\* C28 (as claimed): the radial diagram of a prompt that build_story_prompt
\* built from central stressor S and factors F shows S as the central label
\* and the labels of the first four factors of F, in order, as node labels.
C28_DiagramShowsTheAnalysis ==
    \A r \in Drawn :
        r.kind = "story" =>
            LET names == FactorNames(builder_args.factors)
                shown == Take(names, MaxNodes)
            IN  /\ Truthy(builder_args.central_stressor) =>
                      r.drawn.central_stressor = Format(builder_args.central_stressor)
                /\ names # <<>> => Take(r.drawn.factors, Len(shown)) = shown

\* C30 (as claimed): the feeling prompt of the single emotion 'down' is drawn
\* with the sad/down palette and the one of 'mad_as_hell' with the
\* angry/intense palette.
C30_PaletteFollowsTheEmotion ==
    \A r \in Drawn :
        r.kind = "feeling" =>
            /\ builder_args.selected_emotions = <<"down">> => r.drawn.palette = "sad_down"
            /\ builder_args.selected_emotions = <<"mad_as_hell">> =>
                  r.drawn.palette = "angry_intense"

=============================================================================
